---- MODULE Spec2Model ----
(***************************************************************************)
(* Version / partition lifecycle of the dataset-management backend.       *)
(*                                                                         *)
(* The state is the three stores the request handlers share: the file     *)
(* system under datasets/ (directories and files with their tabular       *)
(* content), the "projects" collection and the "versions" collection       *)
(* (the ledger).  Every request handler is a sequence of steps, one per    *)
(* file-system or store call, in the order of the code; a store or file    *)
(* call may fail, which is a nondeterministic choice of the step.          *)
(***************************************************************************)
EXTENDS Integers, Sequences, FiniteSets, TLC

VARIABLES
    dirs,       \* directories that exist under datasets/
    blobs,      \* files that exist: path -> content (a table as written)
    projects,   \* the projects collection: project id -> document
    versions,   \* the versions collection: version id -> document
    nextPid,    \* next ObjectId the projects collection hands out
    userProjects, \* the projects array of the user document: project ids
    faults,     \* store and file calls that have failed so far
    lastWrite,  \* per directory, the file that was written most recently
    req,        \* the request in each slot: handler, position, locals, response
    pre         \* the stores as they were when the slot's request started

vars == <<dirs, blobs, projects, versions, nextPid, userProjects, faults, lastWrite,
          req, pre>>

-----------------------------------------------------------------------------
(* Bounds *)

MaxProjects == 1
MaxVersions == 5
MaxFaults == 1
MaxRows == 3
MaxGroups == 11

Slots == {1}

-----------------------------------------------------------------------------
(* Tables *)

\* pandas' missing value, as a cell of an in-memory table
NaN == "<NaN>"

\* the texts read_csv(dtype=str) reads as missing
NAStrings == {"", "NA", "NaN", "null"}

tag_column == "Tags"
tag_type_column == "Tag Type"

MapSeq(s, Op(_)) == [i \in 1..Len(s) |-> Op(s[i])]

Range(s) == {s[i] : i \in 1..Len(s)}

ReadCell(c) == IF c \in NAStrings THEN NaN ELSE c

WriteCell(c) == IF c = NaN THEN "" ELSE c

\* read_csv makes the names of the header unique: the k-th repetition of a
\* name gets the suffix .k
MangleDupeCols(cols) ==
    [i \in 1..Len(cols) |->
        LET k == Cardinality({j \in 1..(i - 1) : cols[j] = cols[i]})
        IN  IF k = 0 THEN cols[i] ELSE cols[i] \o "." \o ToString(k)]

\* pd.read_csv(path, dtype=str): first row is the header, cells are strings
ReadTable(file) ==
    [cols |-> MangleDupeCols(file.cols),
     rows |-> [i \in 1..Len(file.rows) |-> MapSeq(file.rows[i], ReadCell)]]

\* df.to_csv(path, index=False)
WriteTable(df) ==
    [cols |-> df.cols,
     rows |-> [i \in 1..Len(df.rows) |-> MapSeq(df.rows[i], WriteCell)]]

IsEmptyRow(r) == \A i \in 1..Len(r) : r[i] = NaN

KeepRow(r) == ~IsEmptyRow(r)

\* df.dropna(how='any')
DropRowsWithAnyEmpty(df) ==
    LET Full(r) == \A i \in 1..Len(r) : r[i] # NaN
    IN  [df EXCEPT !.rows = SelectSeq(df.rows, Full)]

\* df.dropna(how='all')
DropEmptyRows(df) == [df EXCEPT !.rows = SelectSeq(df.rows, KeepRow)]

RECURSIVE DedupRows(_, _)
DedupRows(rows, seen) ==
    IF rows = <<>> THEN <<>>
    ELSE IF Head(rows) \in seen
         THEN DedupRows(Tail(rows), seen)
         ELSE <<Head(rows)>> \o DedupRows(Tail(rows), seen \cup {Head(rows)})

\* df.drop_duplicates(keep='last')
DropDuplicatesKeepLast(df) ==
    LET Reverse(rows) == [i \in 1..Len(rows) |-> rows[Len(rows) + 1 - i]]
    IN  [df EXCEPT !.rows = Reverse(DedupRows(Reverse(df.rows), {}))]

\* df.drop_duplicates(): keeps the first occurrence
DropDuplicates(df) == [df EXCEPT !.rows = DedupRows(df.rows, {})]

\* steps 4 and 5 of upload_dataset
CleanTable(df, remove_duplicates) ==
    IF remove_duplicates
    THEN DropDuplicates(DropEmptyRows(df))
    ELSE DropEmptyRows(df)

\* new.strip() is empty
BlankStrings == {"", " ", "  "}

\* the mapping as the client sent it, blank targets included
FilteredMappingUnfiltered(column_mapping) == column_mapping

\* a column mapping is the set of its <<old, new>> entries; the filter of line 119
FilteredMapping(column_mapping) == {e \in column_mapping : e[2] \notin BlankStrings}

NewName(fm, c) ==
    IF \E e \in fm : e[1] = c THEN (CHOOSE e \in fm : e[1] = c)[2] ELSE c

\* df.rename(columns=filtered_mapping)
RenameColumns(df, column_mapping) ==
    LET fm == FilteredMapping(column_mapping)
    IN  [df EXCEPT !.cols = [i \in 1..Len(df.cols) |-> NewName(fm, df.cols[i])]]

ColIndex(df, c) == CHOOSE i \in 1..Len(df.cols) : df.cols[i] = c

\* df.columns
Columns(df) == Range(df.cols)

\* the test of the columns with the test of the tag-type column left out
HasColumnExceptTagType(df, c) == c = tag_type_column \/ c \in Columns(df)

\* the test "column in df.columns" of lines 232 and 234
HasColumn(df, c) == c \in Columns(df)

\* the sort order of the cell values a grouping key can take; groupby sorts
\* its keys and, with dropna=False, puts the missing value last
CellOrder == <<"A", "B", "Untagged", "X", "Y", NaN>>

Rank(c) == CHOOSE i \in 1..Len(CellOrder) : CellOrder[i] = c

KeyLess(a, b) ==
    \/ Rank(a[1]) < Rank(b[1])
    \/ Rank(a[1]) = Rank(b[1]) /\ Rank(a[2]) < Rank(b[2])

RECURSIVE SortKeys(_)
SortKeys(S) ==
    IF S = {} THEN <<>>
    ELSE LET m == CHOOSE x \in S : \A y \in S \ {x} : KeyLess(x, y)
         IN  <<m>> \o SortKeys(S \ {m})

\* a grouping on the tag column alone
RowKeyTagOnly(df, r) == <<r[ColIndex(df, tag_column)], NaN>>

RowKey(df, r) == <<r[ColIndex(df, tag_column)], r[ColIndex(df, tag_type_column)]>>

\* df.groupby([tag_column, tag_type_column], dropna=False): the keys in
\* iteration order
GroupKeys(df) == SortKeys({RowKey(df, df.rows[i]) : i \in 1..Len(df.rows)})

\* the sub-table of one group
GroupTable(df, key) ==
    LET InGroup(r) == RowKey(df, r) = key
    IN  [df EXCEPT !.rows = SelectSeq(df.rows, InGroup)]

TagName(tag) == IF tag # NaN /\ tag # "" THEN tag ELSE "Untagged"

TagTypeName(tag_type) == IF tag_type # NaN /\ tag_type # "" THEN tag_type ELSE "Unknown"

-----------------------------------------------------------------------------
(* Paths.  A path is its directory (the components below the working       *)
(* directory), the file's stem as a sequence of tokens, and its extension *)
(* (os.path.dirname, os.path.basename and os.path.splitext of the string). *)

UPLOAD_FOLDER == <<"datasets">>

\* the string "sub_versions" read as a path: no directory, no extension
Sentinel == [dir |-> <<>>, stem |-> <<"sub_versions">>, ext |-> ""]

NoPath == [dir |-> <<>>, stem |-> <<>>, ext |-> ""]

NoTable == [cols |-> <<>>, rows |-> <<>>]

\* a file that was created and never filled
EmptyFile == [cols |-> <<>>, rows |-> <<>>]

IsSeparator(t) == t = "/"

IsDotOrUnderscore(t) == t \in {".", "..", "_"}

RECURSIVE StripLeft(_)
StripLeft(ts) ==
    IF ts # <<>> /\ IsDotOrUnderscore(Head(ts)) THEN StripLeft(Tail(ts)) ELSE ts

RECURSIVE StripRight(_)
StripRight(ts) ==
    IF ts # <<>> /\ IsDotOrUnderscore(ts[Len(ts)])
    THEN StripRight(SubSeq(ts, 1, Len(ts) - 1))
    ELSE ts

\* werkzeug's secure_filename on a name given as tokens: separators become
\* "_", leading and trailing dots and underscores are stripped
secure_filename(ts) ==
    StripRight(StripLeft([i \in 1..Len(ts) |-> IF IsSeparator(ts[i]) THEN "_" ELSE ts[i]]))

ProjectFolder(project_name) == UPLOAD_FOLDER \o secure_filename(project_name)

Digit == <<"1", "2", "3", "4", "5", "6", "7", "8", "9">>

\* str(n) of a positive integer below 100
DecStr(n) ==
    IF n < 10 THEN <<Digit[n]>>
    ELSE <<Digit[n \div 10]>> \o (IF n % 10 = 0 THEN <<"0">> ELSE <<Digit[n % 10]>>)

Scale == 10 * 10 * 10

\* version numbers are kept in thousandths, so that 2.N is a number
WholeVersion(n) == n * Scale

\* float(f"2.{version_counter}")
PartitionVersion(version_counter) ==
    IF version_counter < 10
    THEN 2 * Scale + version_counter * 100
    ELSE 2 * Scale + version_counter * 10

NotV1(t) == t # "_v1"

\* f"{filename_without_ext}_v1{ext}" in the directory of the raw file
V1Path(result) == [result EXCEPT !.stem = @ \o <<"_v1">>]

\* f"{filename_without_ext.replace('_v1', '')}_v2{ext}" in the directory of
\* the current file
V2Path(file_path) == [file_path EXCEPT !.stem = SelectSeq(@, NotV1) \o <<"_v2">>]

\* f"{tag_name}_{tag_type_name}_v2.{version_counter}{ext}" in the project folder
PartitionPath(project_folder, tag_name, tag_type_name, version_counter, ext) ==
    [dir  |-> project_folder,
     stem |-> <<tag_name, "_", tag_type_name, "_v2.">> \o DecStr(version_counter),
     ext  |-> ext]

\* the path components of a cell text that holds separators; the other
\* texts are one component
NameParts(text) == IF text = "../A" THEN <<"..", "/", "A">> ELSE <<text>>

RECURSIVE FlatParts(_)
FlatParts(ts) ==
    IF ts = <<>> THEN <<>> ELSE NameParts(Head(ts)) \o FlatParts(Tail(ts))

\* the directory and the file name that the components after dir lead to:
\* a name before a separator is a directory to enter, ".." is the parent
RECURSIVE Walk(_, _, _)
Walk(dir, name, rest) ==
    IF rest = <<>> THEN [dir |-> dir, stem |-> name]
    ELSE IF IsSeparator(Head(rest))
         THEN Walk(IF name = <<"..">>
                   THEN (IF dir = <<>> THEN dir ELSE SubSeq(dir, 1, Len(dir) - 1))
                   ELSE IF name \in {<<>>, <<".">>} THEN dir ELSE dir \o name,
                   <<>>, Tail(rest))
         ELSE Walk(dir, Append(name, Head(rest)), Tail(rest))

\* the place in the file system that opening os.path.join(dir, file name)
\* reaches
Location(path) ==
    LET w == Walk(path.dir, <<>>, FlatParts(path.stem))
    IN  [dir |-> w.dir, stem |-> w.stem, ext |-> path.ext]

SupportedExt(path) == path.ext \in {".csv", ".xlsx"}

-----------------------------------------------------------------------------
(* File system *)

\* os.path.exists of a file path
FileExists(fs, path) == path \in DOMAIN fs

\* to_csv / file.save: the file at path now holds content
PutFile(fs, path, content) ==
    [p \in DOMAIN fs \cup {path} |-> IF p = path THEN content ELSE fs[p]]

\* os.remove
RemoveFile(fs, path) == [p \in DOMAIN fs \ {path} |-> fs[p]]

\* the loop of delete_project over os.listdir(project_folder)
RemoveFilesIn(fs, folder) == [p \in {q \in DOMAIN fs : q.dir # folder} |-> fs[p]]

FilesIn(fs, folder) == {p \in DOMAIN fs : p.dir = folder}

-----------------------------------------------------------------------------
(* The projects collection *)

user_id == "u1"

\* the document create_project inserts
NewProject(name, file_path, remove_duplicates) ==
    [user_id           |-> user_id,
     name              |-> name,
     file_path         |-> file_path,
     datatype_mapping  |-> {},
     remove_duplicates |-> remove_duplicates,
     version_info      |-> <<>>,
     version_number    |-> WholeVersion(0)]

InsertProject(ps, id, doc) ==
    [p \in DOMAIN ps \cup {id} |-> IF p = id THEN doc ELSE ps[p]]

\* collection.delete_one({"_id": id})
DeleteProject(ps, id) == [p \in DOMAIN ps \ {id} |-> ps[p]]

\* $set of a document: the named fields are replaced or added
SetFields(doc, update_fields) ==
    [f \in DOMAIN doc \cup DOMAIN update_fields |->
        IF f \in DOMAIN update_fields THEN update_fields[f] ELSE doc[f]]

\* an update that matches every document of the collection
UpdateAllFieldsEveryDocument(ps, id, update_fields) ==
    [p \in DOMAIN ps |-> SetFields(ps[p], update_fields)]

\* update_all_fields: update_one({"_id": id}, {"$set": update_fields})
UpdateAllFields(ps, id, update_fields) ==
    IF id \in DOMAIN ps
    THEN [ps EXCEPT ![id] = SetFields(@, update_fields)]
    ELSE ps

\* append_version_info: $push to version_info
AppendVersionInfo(ps, id, version_entry) ==
    IF id \in DOMAIN ps
    THEN [ps EXCEPT ![id].version_info = Append(@, version_entry)]
    ELSE ps

HasSubVersions(doc) == "sub_versions" \in DOMAIN doc

-----------------------------------------------------------------------------
(* The versions collection (the ledger) *)

VersionsOf(vs, project_id) == {v \in DOMAIN vs : vs[v].project_id = project_id}

\* the ObjectId insert_one gives the next version document: ids are unique
\* and opaque, the model names one by its project and its rank among the
\* project's entries in order of insertion
NewVersionId(vs, project_id) ==
    <<project_id, Cardinality(VersionsOf(vs, project_id)) + 1>>

VersionDoc(project_id, description, files_path, version_number) ==
    [project_id     |-> project_id,
     description    |-> description,
     files_path     |-> files_path,
     version_number |-> version_number]

\* create_version called without its version_number: the default 0 is stored
CreateVersionDefaultNumber(vs, project_id, description, files_path, version_number) ==
    [v \in DOMAIN vs \cup {NewVersionId(vs, project_id)} |->
        IF v \in DOMAIN vs THEN vs[v]
        ELSE VersionDoc(project_id, description, files_path, WholeVersion(0))]

\* create_version as an upsert on (project, version number): an entry of the
\* same number is overwritten
CreateVersionUpsert(vs, project_id, description, files_path, version_number) ==
    LET same == {v \in VersionsOf(vs, project_id) : vs[v].version_number = version_number}
        id   == IF same = {} THEN NewVersionId(vs, project_id) ELSE CHOOSE v \in same : TRUE
    IN  [v \in DOMAIN vs \cup {id} |->
            IF v = id THEN VersionDoc(project_id, description, files_path, version_number)
            ELSE vs[v]]

\* create_version: insert_one of a new document
CreateVersion(vs, project_id, description, files_path, version_number) ==
    [v \in DOMAIN vs \cup {NewVersionId(vs, project_id)} |->
        IF v \in DOMAIN vs THEN vs[v]
        ELSE VersionDoc(project_id, description, files_path, version_number)]

-----------------------------------------------------------------------------
(* Requests *)

TaggedTable ==
    [cols |-> <<"Tags", "Tag Type", "Val">>,
     rows |-> << <<"A", "X", "1">>,
                 <<"", "", "">>,
                 <<"", "", "2">>,
                 <<"A", "X", "1">>,
                 <<"", "Y", "3">> >>]

UntaggedTable ==
    [cols |-> <<"Old", "Tag Type", "Val">>,
     rows |-> << <<"A", "X", "1">>, <<"B", "", "2">> >>]

\* a file that holds a header and no row
HeaderOnlyTable == [cols |-> <<"Old", "Val">>, rows |-> <<>>]

\* the number of rows get_project_data asks for
num_rows == 10

\* a file with more rows than a preview shows
LongTable ==
    [cols |-> <<"Old">>, rows |-> [i \in 1..(num_rows + 1) |-> <<ToString(i)>>]]

\* what clients upload: project name, file name, content, remove_duplicates
Uploads ==
    { [name |-> <<"p">>, stem |-> <<"data">>, ext |-> ".csv",
       content |-> TaggedTable, remove_duplicates |-> TRUE],
      [name |-> <<"..", "/", "p">>, stem |-> <<"data">>, ext |-> ".csv",
       content |-> UntaggedTable, remove_duplicates |-> FALSE],
      [name |-> <<"q">>, stem |-> <<"data">>, ext |-> ".txt",
       content |-> UntaggedTable, remove_duplicates |-> FALSE],
      [name |-> <<"p">>, stem |-> <<"data">>, ext |-> ".csv",
       content |-> HeaderOnlyTable, remove_duplicates |-> FALSE],
      [name |-> <<"p">>, stem |-> <<"data">>, ext |-> ".csv",
       content |-> LongTable, remove_duplicates |-> TRUE] }

\* the mappings clients send: old name -> new name
ColumnMappings ==
    { {<<"Old", "Tags">>, <<"Val", " ">>, <<"Missing", "X">>},
      {<<"Tag Type", "Kind">>} }

ProjectIds == 1..MaxProjects

IdleReq ==
    [op |-> "idle", pc |-> "done", code |-> 0, msg |-> "",
     project_id |-> 0, name |-> <<>>, remove_duplicates |-> FALSE,
     filename |-> NoPath, content |-> NoTable, mapping |-> {},
     file_path |-> NoPath, new_file_path |-> NoPath, df |-> NoTable,
     grouped |-> <<>>, version_counter |-> 0, sub_versions |-> <<>>,
     version_id |-> <<>>, version_0_id |-> <<>>, column_names |-> <<>>,
     twice |-> NoTable, loaded |-> NoTable, tag_groups |-> <<>>,
     rows |-> <<>>]

Snapshot ==
    [dirs |-> dirs, blobs |-> blobs, projects |-> projects, versions |-> versions,
     faults |-> faults]

\* the handler returns a response
Respond(r, code, msg) ==
    [r EXCEPT !.pc = "done", !.code = code, !.msg = msg,
              !.df = NoTable, !.content = NoTable]

At(s, op, pc) == req[s].op = op /\ req[s].pc = pc

Begin(s, r) ==
    /\ req[s].pc = "done"
    /\ req' = [req EXCEPT ![s] = r]
    /\ pre' = [pre EXCEPT ![s] = Snapshot]
    /\ UNCHANGED <<dirs, blobs, projects, versions, nextPid, userProjects, faults, lastWrite>>

Goto(s, r) == req' = [req EXCEPT ![s] = r] /\ UNCHANGED pre

CanFail == faults < MaxFaults

\* the outcomes of a store call: it succeeds or raises PyMongoError
StoreOutcomes == {"ok"} \cup (IF CanFail THEN {"fail"} ELSE {})

\* insert_one into the projects collection, while the model has ids left
ProjectOutcomes ==
    (IF nextPid <= MaxProjects THEN {"ok"} ELSE {})
        \cup (IF CanFail THEN {"fail"} ELSE {})

\* insert_one into the ledger, while the model has ids left for the entries
\* of the projects it creates
LedgerOutcomes ==
    (IF Cardinality({v \in DOMAIN versions : v[1] <= MaxProjects}) < MaxVersions
     THEN {"ok"} ELSE {})
        \cup (IF CanFail THEN {"fail"} ELSE {})

\* the outcomes of writing a file: written, not created, or created and
\* left unfilled by a write that failed under way
WriteOutcomes(path) ==
    IF path.dir \in dirs
    THEN {"ok"} \cup (IF CanFail THEN {"fail", "partial"} ELSE {})
    ELSE {"nodir"}

\* a write that, when it fails, takes the other files of the folder with it
WrittenOrRolledBack(fs, path, content, out) ==
    IF out = "ok" THEN PutFile(fs, path, content) ELSE RemoveFilesIn(fs, path.dir)

Written(fs, path, content, out) ==
    CASE out = "ok" -> PutFile(fs, path, content)
      [] out = "partial" -> PutFile(fs, path, EmptyFile)
      [] OTHER -> fs

\* the most recent write of each directory, after a write to path: a write
\* that created the file counts
LastWritten(lw, path, out) ==
    IF out \in {"ok", "partial"}
    THEN [d \in DOMAIN lw \cup {path.dir} |-> IF d = path.dir THEN path ELSE lw[d]]
    ELSE lw

\* the outcomes of reading a table from a file
ReadOutcomes(path) ==
    IF FileExists(blobs, path) /\ blobs[path] # EmptyFile
    THEN {"ok"} \cup (IF CanFail THEN {"fail"} ELSE {})
    ELSE {"unreadable"}

\* a call that failed by the choice of the step counts as a fault
Fault(out) == faults' = IF out \in {"fail", "partial"} THEN faults + 1 ELSE faults

UnexpectedError == "An unexpected error occurred"

\* a project id that is not the text of an ObjectId
MalformedId == -1

\* an exception leaves the handler: no response of the handler's own
Raise(r, exception) ==
    [r EXCEPT !.pc = "done", !.code = 0, !.msg = exception,
              !.df = NoTable, !.content = NoTable]

ProjectExists ==
    "A project with this name already exists. Please choose a different project name."

-----------------------------------------------------------------------------
(* POST /project/upload_dataset *)

UploadStart(s, u) ==
    Begin(s, [IdleReq EXCEPT !.op = "upload", !.pc = "save_exists",
                 !.name = u.name, !.remove_duplicates = u.remove_duplicates,
                 !.filename = [dir |-> <<>>, stem |-> u.stem, ext |-> u.ext],
                 !.content = u.content])

\* save_file without the test of line 40
SaveFileNoCheck(s) ==
    /\ At(s, "upload", "save_exists")
    /\ Goto(s, [req[s] EXCEPT !.pc = "save_mkdir"])
    /\ UNCHANGED <<dirs, blobs, projects, versions, nextPid, userProjects, faults, lastWrite>>

\* save_file, line 40: the folder must not exist yet
SaveFileExists(s) ==
    /\ At(s, "upload", "save_exists")
    /\ LET r == req[s]
       IN  IF ProjectFolder(r.name) \in dirs
           THEN Goto(s, Respond(r, 400, ProjectExists))
           ELSE Goto(s, [r EXCEPT !.pc = "save_mkdir"])
    /\ UNCHANGED <<dirs, blobs, projects, versions, nextPid, userProjects, faults, lastWrite>>

\* save_file with os.makedirs(project_folder, exist_ok=True)
SaveFileMkdirExistOk(s) ==
    /\ At(s, "upload", "save_mkdir")
    /\ LET r == req[s]
           project_folder == ProjectFolder(r.name)
       IN  /\ dirs' = dirs \cup {project_folder}
           /\ Goto(s, [r EXCEPT !.pc = "save_write",
                          !.file_path = [dir  |-> project_folder,
                                         stem |-> secure_filename(r.filename.stem),
                                         ext  |-> r.filename.ext]])
    /\ UNCHANGED <<blobs, projects, versions, nextPid, userProjects, faults, lastWrite>>

\* save_file, line 44: os.makedirs raises when the folder exists by now
SaveFileMkdir(s) ==
    /\ At(s, "upload", "save_mkdir")
    /\ LET r == req[s]
           project_folder == ProjectFolder(r.name)
       IN  IF project_folder \in dirs
           THEN /\ Goto(s, Respond(r, 400, "Error saving file"))
                /\ UNCHANGED dirs
           ELSE /\ dirs' = dirs \cup {project_folder}
                /\ Goto(s, [r EXCEPT !.pc = "save_write",
                               !.file_path = [dir  |-> project_folder,
                                              stem |-> secure_filename(r.filename.stem),
                                              ext  |-> r.filename.ext]])
    /\ UNCHANGED <<blobs, projects, versions, nextPid, userProjects, faults, lastWrite>>

\* save_file, line 50: file.save
SaveFileWrite(s) ==
    /\ At(s, "upload", "save_write")
    /\ LET r == req[s]
       IN  \E out \in WriteOutcomes(r.file_path) :
              /\ blobs' = Written(blobs, r.file_path, r.content, out)
              /\ lastWrite' = LastWritten(lastWrite, r.file_path, out)
              /\ Fault(out)
              /\ IF out = "ok"
                 THEN Goto(s, [r EXCEPT !.pc = "create_project"])
                 ELSE Goto(s, Respond(r, 400, "Error saving file"))
    /\ UNCHANGED <<dirs, projects, versions, nextPid, userProjects>>

\* step 1, lines 95-106
UploadCreateProject(s) ==
    /\ At(s, "upload", "create_project")
    /\ LET r == req[s]
       IN  \E out \in ProjectOutcomes :
              /\ Fault(out)
              /\ IF out = "ok"
                 THEN /\ projects' = InsertProject(projects, nextPid,
                                        NewProject(r.name, r.file_path, r.remove_duplicates))
                      /\ nextPid' = nextPid + 1
                      /\ Goto(s, [r EXCEPT !.pc = "create_v0", !.project_id = nextPid])
                      /\ UNCHANGED blobs
                 ELSE /\ UNCHANGED <<projects, nextPid>>
                      /\ IF FileExists(blobs, r.file_path)
                         THEN /\ blobs' = RemoveFile(blobs, r.file_path)
                              /\ Goto(s, Respond(r, 500, "Failed to create project"))
                         ELSE /\ UNCHANGED blobs
                              /\ Goto(s, Respond(r, 500, UnexpectedError))
    /\ UNCHANGED <<dirs, versions, userProjects, lastWrite>>

\* step 2, lines 109-118: on failure the raw file is removed first
UploadCreateVersion0(s) ==
    /\ At(s, "upload", "create_v0")
    /\ LET r == req[s]
       IN  \E out \in LedgerOutcomes :
              /\ Fault(out)
              /\ IF out = "ok"
                 THEN /\ versions' = CreateVersion(versions, r.project_id, "Initial version",
                                                   r.file_path, WholeVersion(0))
                      /\ Goto(s, [r EXCEPT !.pc = "append_v0",
                                           !.version_0_id = NewVersionId(versions, r.project_id)])
                      /\ UNCHANGED blobs
                 ELSE /\ UNCHANGED versions
                      /\ IF FileExists(blobs, r.file_path)
                         THEN /\ blobs' = RemoveFile(blobs, r.file_path)
                              /\ Goto(s, [r EXCEPT !.pc = "rollback_project"])
                         ELSE /\ UNCHANGED blobs
                              /\ Goto(s, Respond(r, 500, UnexpectedError))
    /\ UNCHANGED <<dirs, projects, nextPid, userProjects, lastWrite>>

\* line 119: the project document is deleted again
UploadRollbackProject(s) ==
    /\ At(s, "upload", "rollback_project")
    /\ LET r == req[s]
       IN  \E out \in StoreOutcomes :
              /\ Fault(out)
              /\ projects' = IF out = "ok" THEN DeleteProject(projects, r.project_id)
                             ELSE projects
              /\ Goto(s, Respond(r, 500, "Failed to create version 0"))
    /\ UNCHANGED <<dirs, blobs, versions, nextPid, userProjects, lastWrite>>

\* lines 125-128: the result of append_version_info is not looked at
UploadAppendVersion0(s) ==
    /\ At(s, "upload", "append_v0")
    /\ LET r == req[s]
       IN  \E out \in StoreOutcomes :
              /\ Fault(out)
              /\ projects' = IF out = "ok"
                             THEN AppendVersionInfo(projects, r.project_id,
                                      [label |-> "v0", id |-> r.version_0_id])
                             ELSE projects
              /\ Goto(s, [r EXCEPT !.pc = "load"])
    /\ UNCHANGED <<dirs, blobs, versions, nextPid, userProjects, lastWrite>>

\* steps 3 to 5, lines 131-154: read, drop empty rows, drop duplicates
UploadLoad(s) ==
    /\ At(s, "upload", "load")
    /\ LET r == req[s]
       IN  IF ~SupportedExt(r.file_path)
           THEN Goto(s, Respond(r, 400, "Unsupported file format")) /\ UNCHANGED faults
           ELSE \E out \in ReadOutcomes(r.file_path) :
                   /\ Fault(out)
                   /\ IF out = "ok"
                      THEN Goto(s, [r EXCEPT !.pc = "write_v1",
                                      !.df = CleanTable(ReadTable(blobs[r.file_path]),
                                                        r.remove_duplicates),
                                      !.new_file_path = V1Path(r.file_path)])
                      ELSE Goto(s, Respond(r, 500, "Error reading the file"))
    /\ UNCHANGED <<dirs, blobs, projects, versions, nextPid, userProjects, lastWrite>>

\* step 6, lines 158-169: a failing write raises into the handler of line 218
UploadWriteV1(s) ==
    /\ At(s, "upload", "write_v1")
    /\ LET r == req[s]
       IN  \E out \in WriteOutcomes(r.new_file_path) :
              /\ blobs' = Written(blobs, r.new_file_path, WriteTable(r.df), out)
              /\ lastWrite' = LastWritten(lastWrite, r.new_file_path, out)
              /\ Fault(out)
              /\ IF out = "ok"
                 THEN Goto(s, [r EXCEPT !.pc = "create_v1"])
                 ELSE Goto(s, Respond(r, 500, UnexpectedError))
    /\ UNCHANGED <<dirs, projects, versions, nextPid, userProjects>>

\* step 7, lines 172-183
UploadCreateVersion1(s) ==
    /\ At(s, "upload", "create_v1")
    /\ LET r == req[s]
       IN  \E out \in LedgerOutcomes :
              /\ Fault(out)
              /\ IF out = "ok"
                 THEN /\ versions' = CreateVersion(versions, r.project_id,
                                        "Processed version with cleaned data",
                                        r.new_file_path, WholeVersion(1))
                      /\ Goto(s, [r EXCEPT !.pc = "update_v1",
                                           !.version_id = NewVersionId(versions, r.project_id)])
                      /\ UNCHANGED blobs
                 ELSE /\ UNCHANGED versions
                      /\ IF FileExists(blobs, r.new_file_path)
                         THEN /\ blobs' = RemoveFile(blobs, r.new_file_path)
                              /\ Goto(s, Respond(r, 500, "Failed to create version 1"))
                         ELSE /\ UNCHANGED blobs
                              /\ Goto(s, Respond(r, 500, UnexpectedError))
    /\ UNCHANGED <<dirs, projects, nextPid, userProjects, lastWrite>>

\* the update_fields of lines 188-192
UploadFields(new_file_path) ==
    [file_path |-> new_file_path, version_number |-> WholeVersion(1)]

\* step 8, lines 186-200: update_all_fields is False when the store call
\* fails or matches no document
UploadUpdateProject(s) ==
    /\ At(s, "upload", "update_v1")
    /\ LET r == req[s]
       IN  \E out \in StoreOutcomes :
              /\ Fault(out)
              /\ IF out = "ok" /\ r.project_id \in DOMAIN projects
                 THEN /\ projects' = UpdateAllFields(projects, r.project_id,
                                        UploadFields(r.new_file_path))
                      /\ Goto(s, [r EXCEPT !.pc = "append_v1"])
                      /\ UNCHANGED blobs
                 ELSE /\ UNCHANGED projects
                      /\ IF FileExists(blobs, r.new_file_path)
                         THEN /\ blobs' = RemoveFile(blobs, r.new_file_path)
                              /\ Goto(s, Respond(r, 500, "Failed to update project with new file path"))
                         ELSE /\ UNCHANGED blobs
                              /\ Goto(s, Respond(r, 500, UnexpectedError))
    /\ UNCHANGED <<dirs, versions, nextPid, userProjects, lastWrite>>

\* lines 202-205
UploadAppendVersion1(s) ==
    /\ At(s, "upload", "append_v1")
    /\ LET r == req[s]
       IN  \E out \in StoreOutcomes :
              /\ Fault(out)
              /\ projects' = IF out = "ok"
                             THEN AppendVersionInfo(projects, r.project_id,
                                      [label |-> "v1", id |-> r.version_id])
                             ELSE projects
              /\ Goto(s, [r EXCEPT !.pc = "add_project"])
    /\ UNCHANGED <<dirs, blobs, versions, nextPid, userProjects, lastWrite>>

\* lines 208-216: the project is added to the user's projects array
UploadAddProject(s) ==
    /\ At(s, "upload", "add_project")
    /\ LET r == req[s]
       IN  \E out \in StoreOutcomes :
              /\ Fault(out)
              /\ userProjects' = IF out = "ok" THEN userProjects \cup {r.project_id}
                                 ELSE userProjects
              /\ Goto(s, Respond(r, 201, "success"))
    /\ UNCHANGED <<dirs, blobs, projects, versions, nextPid, lastWrite>>

Upload(s) ==
    \/ \E u \in Uploads : UploadStart(s, u)
    \/ SaveFileExists(s)
    \/ SaveFileMkdir(s)
    \/ SaveFileWrite(s)
    \/ UploadCreateProject(s)
    \/ UploadCreateVersion0(s)
    \/ UploadRollbackProject(s)
    \/ UploadAppendVersion0(s)
    \/ UploadLoad(s)
    \/ UploadWriteV1(s)
    \/ UploadCreateVersion1(s)
    \/ UploadUpdateProject(s)
    \/ UploadAppendVersion1(s)
    \/ UploadAddProject(s)

-----------------------------------------------------------------------------
(* POST /dataset/update_column_names *)

RenameStart(s, project_id, column_mapping) ==
    Begin(s, [IdleReq EXCEPT !.op = "rename", !.pc = "get_project",
                 !.project_id = project_id, !.mapping = column_mapping])

\* step 1, lines 122-126: get_project is None for no document or a store error
RenameGetProject(s) ==
    /\ At(s, "rename", "get_project")
    /\ LET r == req[s]
       IN  \E out \in StoreOutcomes :
              /\ Fault(out)
              /\ IF out = "ok" /\ r.project_id \in DOMAIN projects
                 THEN Goto(s, [r EXCEPT !.pc = "check_file",
                                 !.file_path = projects[r.project_id].file_path])
                 ELSE Goto(s, Respond(r, 404, "Project not found"))
    /\ UNCHANGED <<dirs, blobs, projects, versions, nextPid, userProjects, lastWrite>>

\* a rename that does not test the file of the pointer
RenameCheckFileSkipped(s) ==
    /\ At(s, "rename", "check_file")
    /\ Goto(s, [req[s] EXCEPT !.pc = "load"])
    /\ UNCHANGED <<dirs, blobs, projects, versions, nextPid, userProjects, faults, lastWrite>>

\* lines 127-128
RenameCheckFile(s) ==
    /\ At(s, "rename", "check_file")
    /\ LET r == req[s]
       IN  IF FileExists(blobs, r.file_path)
           THEN Goto(s, [r EXCEPT !.pc = "load"])
           ELSE Goto(s, Respond(r, 404, "File not found"))
    /\ UNCHANGED <<dirs, blobs, projects, versions, nextPid, userProjects, faults, lastWrite>>

\* steps 2 and 3, lines 131-143: read the table and rename its columns
RenameLoad(s) ==
    /\ At(s, "rename", "load")
    /\ LET r == req[s]
       IN  IF ~SupportedExt(r.file_path)
           THEN Goto(s, Respond(r, 400, "Unsupported file format")) /\ UNCHANGED faults
           ELSE \E out \in ReadOutcomes(r.file_path) :
                   /\ Fault(out)
                   /\ IF out = "ok"
                      THEN Goto(s, [r EXCEPT !.pc = "write_v2",
                                      !.df = RenameColumns(ReadTable(blobs[r.file_path]),
                                                           r.mapping),
                                      !.new_file_path = V2Path(r.file_path)])
                      ELSE Goto(s, Respond(r, 500, "Error reading file"))
    /\ UNCHANGED <<dirs, blobs, projects, versions, nextPid, userProjects, lastWrite>>

\* step 4, lines 146-156: a failing write raises into the handler of line 189
RenameWriteV2(s) ==
    /\ At(s, "rename", "write_v2")
    /\ LET r == req[s]
       IN  \E out \in WriteOutcomes(r.new_file_path) :
              /\ blobs' = Written(blobs, r.new_file_path, WriteTable(r.df), out)
              /\ lastWrite' = LastWritten(lastWrite, r.new_file_path, out)
              /\ Fault(out)
              /\ IF out = "ok"
                 THEN Goto(s, [r EXCEPT !.pc = "create_v2"])
                 ELSE Goto(s, Respond(r, 500, UnexpectedError))
    /\ UNCHANGED <<dirs, projects, versions, nextPid, userProjects>>

\* step 5, lines 159-168
RenameCreateVersion2(s) ==
    /\ At(s, "rename", "create_v2")
    /\ LET r == req[s]
       IN  \E out \in LedgerOutcomes :
              /\ Fault(out)
              /\ IF out = "ok"
                 THEN /\ versions' = CreateVersion(versions, r.project_id,
                                        "Updated column names",
                                        r.new_file_path, WholeVersion(2))
                      /\ Goto(s, [r EXCEPT !.pc = "update_v2",
                                           !.version_id = NewVersionId(versions, r.project_id)])
                      /\ UNCHANGED blobs
                 ELSE /\ UNCHANGED versions
                      /\ IF FileExists(blobs, r.new_file_path)
                         THEN /\ blobs' = RemoveFile(blobs, r.new_file_path)
                              /\ Goto(s, Respond(r, 500, "Failed to create version 2"))
                         ELSE /\ UNCHANGED blobs
                              /\ Goto(s, Respond(r, 500, UnexpectedError))
    /\ UNCHANGED <<dirs, projects, nextPid, userProjects, lastWrite>>

\* the update_fields of a rename that bumps the counter and leaves the pointer
RenameFieldsVersionOnly(new_file_path) ==
    [version_number |-> WholeVersion(2)]

\* the update_fields of lines 173-176
RenameFields(new_file_path) ==
    [file_path |-> new_file_path, version_number |-> WholeVersion(2)]

\* step 6, lines 171-187
RenameUpdateProject(s) ==
    /\ At(s, "rename", "update_v2")
    /\ LET r == req[s]
       IN  \E out \in StoreOutcomes :
              /\ Fault(out)
              /\ IF out = "ok" /\ r.project_id \in DOMAIN projects
                 THEN /\ projects' = UpdateAllFields(projects, r.project_id,
                                        RenameFields(r.new_file_path))
                      /\ Goto(s, Respond(r, 200, "success"))
                      /\ UNCHANGED blobs
                 ELSE /\ UNCHANGED projects
                      /\ IF FileExists(blobs, r.new_file_path)
                         THEN /\ blobs' = RemoveFile(blobs, r.new_file_path)
                              /\ Goto(s, Respond(r, 500, "Failed to update project with new file path and version"))
                         ELSE /\ UNCHANGED blobs
                              /\ Goto(s, Respond(r, 500, UnexpectedError))
    /\ UNCHANGED <<dirs, versions, nextPid, userProjects, lastWrite>>

Rename(s) ==
    \/ \E project_id \in ProjectIds, column_mapping \in ColumnMappings :
          RenameStart(s, project_id, column_mapping)
    \/ RenameGetProject(s)
    \/ RenameCheckFile(s)
    \/ RenameLoad(s)
    \/ RenameWriteV2(s)
    \/ RenameCreateVersion2(s)
    \/ RenameUpdateProject(s)

-----------------------------------------------------------------------------
(* POST /dataset/partition_by_tags *)

PartitionStart(s, project_id) ==
    Begin(s, [IdleReq EXCEPT !.op = "partition", !.pc = "get_project",
                 !.project_id = project_id])

\* step 1, lines 205-209, and the project name of line 215
PartitionGetProject(s) ==
    /\ At(s, "partition", "get_project")
    /\ LET r == req[s]
       IN  \E out \in StoreOutcomes :
              /\ Fault(out)
              /\ IF out = "ok" /\ r.project_id \in DOMAIN projects
                 THEN Goto(s, [r EXCEPT !.pc = "check_file",
                                 !.file_path = projects[r.project_id].file_path,
                                 !.name = projects[r.project_id].name])
                 ELSE Goto(s, Respond(r, 404, "Project not found"))
    /\ UNCHANGED <<dirs, blobs, projects, versions, nextPid, userProjects, lastWrite>>

\* lines 210-211
PartitionCheckFile(s) ==
    /\ At(s, "partition", "check_file")
    /\ LET r == req[s]
       IN  IF FileExists(blobs, r.file_path)
           THEN Goto(s, [r EXCEPT !.pc = "load"])
           ELSE Goto(s, Respond(r, 404, "File not found"))
    /\ UNCHANGED <<dirs, blobs, projects, versions, nextPid, userProjects, faults, lastWrite>>

\* steps 2 and 3, lines 218-235: read the table, both columns must be there
PartitionLoad(s) ==
    /\ At(s, "partition", "load")
    /\ LET r == req[s]
       IN  IF ~SupportedExt(r.file_path)
           THEN Goto(s, Respond(r, 400, "Unsupported file format")) /\ UNCHANGED faults
           ELSE \E out \in ReadOutcomes(r.file_path) :
                   /\ Fault(out)
                   /\ IF out # "ok"
                      THEN Goto(s, Respond(r, 500, "Error reading file"))
                      ELSE LET df == ReadTable(blobs[r.file_path])
                           IN  IF ~HasColumn(df, tag_column)
                               THEN Goto(s, Respond(r, 400, "Tags column not found in file"))
                               ELSE IF ~HasColumn(df, tag_type_column)
                               THEN Goto(s, Respond(r, 400, "Tag Type column not found in file"))
                               ELSE Goto(s, [r EXCEPT !.pc = "mkdir", !.df = df])
    /\ UNCHANGED <<dirs, blobs, projects, versions, nextPid, userProjects, lastWrite>>

\* lines 238-246: the project folder is created when missing, the rows are
\* grouped; groupby raises KeyError for a column the table does not have
PartitionMkdir(s) ==
    /\ At(s, "partition", "mkdir")
    /\ LET r == req[s]
       IN  /\ dirs' = dirs \cup {ProjectFolder(r.name)}
           /\ IF {tag_column, tag_type_column} \subseteq Columns(r.df)
              THEN Goto(s, [r EXCEPT !.pc = "write_group", !.grouped = GroupKeys(r.df),
                                     !.version_counter = 1, !.sub_versions = <<>>])
              ELSE Goto(s, Respond(r, 500, "Server error"))
    /\ UNCHANGED <<blobs, projects, versions, nextPid, userProjects, faults, lastWrite>>

GroupPath(r) ==
    LET key == r.grouped[r.version_counter]
    IN  Location(PartitionPath(ProjectFolder(r.name), TagName(key[1]),
                               TagTypeName(key[2]), r.version_counter, r.file_path.ext))

\* lines 248-258: the next group's rows are written to its own file; after
\* the last group the loop ends
PartitionWriteGroup(s) ==
    /\ At(s, "partition", "write_group")
    /\ LET r == req[s]
       IN  IF r.version_counter > Len(r.grouped)
           THEN /\ Goto(s, [r EXCEPT !.pc = "update_project"])
                /\ UNCHANGED <<blobs, faults, lastWrite>>
           ELSE \E out \in WriteOutcomes(GroupPath(r)) :
                   /\ blobs' = Written(blobs, GroupPath(r),
                                  WriteTable(GroupTable(r.df, r.grouped[r.version_counter])),
                                  out)
                   /\ lastWrite' = LastWritten(lastWrite, GroupPath(r), out)
                   /\ Fault(out)
                   /\ IF out = "ok"
                      THEN Goto(s, [r EXCEPT !.pc = "record_group",
                                             !.new_file_path = GroupPath(r)])
                      ELSE Goto(s, Respond(r, 500, "Server error"))
    /\ UNCHANGED <<dirs, projects, versions, nextPid, userProjects>>

\* a descriptor that records the whole version number 2 for every group
DescriptorVersion2(version_id, tag_name, tag_type_name, file_save_path, version_number) ==
    [version        |-> version_id,
     tag            |-> tag_name,
     tag_type       |-> tag_type_name,
     file_path      |-> file_save_path,
     version_number |-> WholeVersion(2)]

\* the descriptor of lines 269-275
Descriptor(version_id, tag_name, tag_type_name, file_save_path, version_number) ==
    [version        |-> version_id,
     tag            |-> tag_name,
     tag_type       |-> tag_type_name,
     file_path      |-> file_save_path,
     version_number |-> version_number]

\* lines 277-281: tag_groups[f"{tag_name}_{tag_type_name}"] = {...}; an
\* assignment to a key that is there replaces its entry
GroupSummary(tag_groups, tag_name, tag_type_name, group) ==
    LET key == tag_name \o "_" \o tag_type_name
    IN  [k \in DOMAIN tag_groups \cup {key} |->
            IF k = key
            THEN [entries |-> Len(group.rows), tag_type |-> tag_type_name]
            ELSE tag_groups[k]]

\* a loop body that does not move on to the next group
PartitionRecordGroupRepeat(s) ==
    /\ At(s, "partition", "record_group")
    /\ Goto(s, [req[s] EXCEPT !.pc = "write_group"])
    /\ UNCHANGED <<dirs, blobs, projects, versions, nextPid, userProjects, faults, lastWrite>>

\* lines 261-282: the ledger entry of the group; a descriptor is collected
\* only when the entry was recorded
PartitionRecordGroup(s) ==
    /\ At(s, "partition", "record_group")
    /\ LET r == req[s]
           key == r.grouped[r.version_counter]
           version_number == PartitionVersion(r.version_counter)
       IN  \E out \in LedgerOutcomes :
              /\ Fault(out)
              /\ IF out = "ok"
                 THEN /\ versions' = CreateVersion(versions, r.project_id,
                                        <<"Partitioned by", TagName(key[1]), TagTypeName(key[2])>>,
                                        r.new_file_path, version_number)
                      /\ Goto(s, [r EXCEPT !.pc = "write_group",
                                     !.version_counter = @ + 1,
                                     !.sub_versions = Append(@,
                                         Descriptor(NewVersionId(versions, r.project_id), TagName(key[1]),
                                                    TagTypeName(key[2]), r.new_file_path,
                                                    version_number)),
                                     !.tag_groups = GroupSummary(@, TagName(key[1]),
                                                        TagTypeName(key[2]),
                                                        GroupTable(r.df, key))])
                 ELSE /\ UNCHANGED versions
                      /\ Goto(s, [r EXCEPT !.pc = "write_group",
                                           !.version_counter = @ + 1,
                                           !.tag_groups = GroupSummary(@, TagName(key[1]),
                                                              TagTypeName(key[2]),
                                                              GroupTable(r.df, key))])
    /\ UNCHANGED <<dirs, blobs, projects, nextPid, userProjects, lastWrite>>

\* the update_fields of a partition that writes the version number of the upload
PartitionFieldsVersion1(sub_versions) ==
    [file_path |-> Sentinel, sub_versions |-> sub_versions,
     version_number |-> WholeVersion(1)]

\* the update_fields of a partition that leaves the pointer where it is
PartitionFieldsNoSentinel(sub_versions) ==
    [sub_versions |-> sub_versions, version_number |-> WholeVersion(2)]

\* the update_fields of lines 287-291
PartitionFields(sub_versions) ==
    [file_path |-> Sentinel, sub_versions |-> sub_versions,
     version_number |-> WholeVersion(2)]

\* step 5, lines 285-297: the result of update_all_fields is not looked at
PartitionUpdateProject(s) ==
    /\ At(s, "partition", "update_project")
    /\ LET r == req[s]
       IN  \E out \in StoreOutcomes :
              /\ Fault(out)
              /\ projects' = IF out = "ok"
                             THEN UpdateAllFields(projects, r.project_id,
                                      PartitionFields(r.sub_versions))
                             ELSE projects
              /\ Goto(s, Respond(r, 200, "success"))
    /\ UNCHANGED <<dirs, blobs, versions, nextPid, userProjects, lastWrite>>

Partition(s) ==
    \/ \E project_id \in ProjectIds : PartitionStart(s, project_id)
    \/ PartitionGetProject(s)
    \/ PartitionCheckFile(s)
    \/ PartitionLoad(s)
    \/ PartitionMkdir(s)
    \/ PartitionWriteGroup(s)
    \/ PartitionRecordGroup(s)
    \/ PartitionUpdateProject(s)

-----------------------------------------------------------------------------
(* DELETE /project/delete_project/<project_id> *)

DeleteStart(s, project_id) ==
    Begin(s, [IdleReq EXCEPT !.op = "delete", !.pc = "get_project",
                 !.project_id = project_id])

\* lines 288-293
DeleteGetProject(s) ==
    /\ At(s, "delete", "get_project")
    /\ LET r == req[s]
       IN  \E out \in StoreOutcomes :
              /\ Fault(out)
              /\ IF out = "ok" /\ r.project_id \in DOMAIN projects
                 THEN Goto(s, [r EXCEPT !.pc = "remove_files",
                                 !.file_path = projects[r.project_id].file_path])
                 ELSE Goto(s, Respond(r, 404, "Project not found"))
    /\ UNCHANGED <<dirs, blobs, projects, versions, nextPid, userProjects, lastWrite>>

\* lines 297-303: the files of the folder that holds file_path are removed,
\* when that folder exists
DeleteRemoveFiles(s) ==
    /\ At(s, "delete", "remove_files")
    /\ LET r == req[s]
           project_folder == r.file_path.dir
       IN  IF project_folder \notin dirs
           THEN /\ Goto(s, [r EXCEPT !.pc = "delete_project"])
                /\ UNCHANGED <<blobs, faults>>
           ELSE \E out \in StoreOutcomes :
                   /\ Fault(out)
                   /\ IF out = "ok"
                      THEN /\ blobs' = RemoveFilesIn(blobs, project_folder)
                           /\ Goto(s, [r EXCEPT !.pc = "rmdir"])
                      ELSE /\ UNCHANGED blobs
                           /\ Goto(s, Respond(r, 500, "Error deleting project folder"))
    /\ UNCHANGED <<dirs, projects, versions, nextPid, userProjects, lastWrite>>

\* line 305: os.rmdir raises when the folder is gone or not empty
DeleteRmdir(s) ==
    /\ At(s, "delete", "rmdir")
    /\ LET r == req[s]
           project_folder == r.file_path.dir
       IN  IF project_folder \in dirs /\ FilesIn(blobs, project_folder) = {}
           THEN /\ dirs' = dirs \ {project_folder}
                /\ Goto(s, [r EXCEPT !.pc = "delete_project"])
           ELSE /\ UNCHANGED dirs
                /\ Goto(s, Respond(r, 500, "Error deleting project folder"))
    /\ UNCHANGED <<blobs, projects, versions, nextPid, userProjects, faults, lastWrite>>

\* lines 314-327: delete_project is False when the store call fails or
\* deletes no document
DeleteProjectDocument(s) ==
    /\ At(s, "delete", "delete_project")
    /\ LET r == req[s]
       IN  \E out \in StoreOutcomes :
              /\ Fault(out)
              /\ IF out = "ok" /\ r.project_id \in DOMAIN projects
                 THEN /\ projects' = DeleteProject(projects, r.project_id)
                      /\ Goto(s, [r EXCEPT !.pc = "remove_project"])
                 ELSE /\ UNCHANGED projects
                      /\ Goto(s, Respond(r, 500, "Failed to delete project"))
    /\ UNCHANGED <<dirs, blobs, versions, nextPid, userProjects, lastWrite>>

\* line 317: the project leaves the user's projects array
DeleteRemoveProject(s) ==
    /\ At(s, "delete", "remove_project")
    /\ LET r == req[s]
       IN  \E out \in StoreOutcomes :
              /\ Fault(out)
              /\ userProjects' = IF out = "ok" THEN userProjects \ {r.project_id}
                                 ELSE userProjects
              /\ Goto(s, Respond(r, 200, "success"))
    /\ UNCHANGED <<dirs, blobs, projects, versions, nextPid, lastWrite>>

Delete(s) ==
    \/ \E project_id \in ProjectIds : DeleteStart(s, project_id)
    \/ DeleteGetProject(s)
    \/ DeleteRemoveFiles(s)
    \/ DeleteRmdir(s)
    \/ DeleteProjectDocument(s)
    \/ DeleteRemoveProject(s)

-----------------------------------------------------------------------------
(* GET /project/get_project_data/<project_id> *)

\* lines 398-424: the first num_rows rows of the file, read as text, missing
\* cells written as "", each row a dictionary in the order of the columns:
\* the sequence of its <<column, value>> items
clean_and_preview(file, n) ==
    LET df == ReadTable(file)
        shown == SubSeq(df.rows, 1, IF Len(df.rows) < n THEN Len(df.rows) ELSE n)
    IN  [i \in 1..Len(shown) |->
            [j \in 1..Len(df.cols) |-> <<df.cols[j], WriteCell(shown[i][j])>>]]

DataStart(s, project_id) ==
    Begin(s, [IdleReq EXCEPT !.op = "data", !.pc = "get_project",
                 !.project_id = project_id])

\* lines 380-385
DataGetProject(s) ==
    /\ At(s, "data", "get_project")
    /\ LET r == req[s]
       IN  \E out \in StoreOutcomes :
              /\ Fault(out)
              /\ IF out = "ok" /\ r.project_id \in DOMAIN projects
                 THEN Goto(s, [r EXCEPT !.pc = "check_file",
                                 !.file_path = projects[r.project_id].file_path])
                 ELSE Goto(s, Respond(r, 404, "Project not found"))
    /\ UNCHANGED <<dirs, blobs, projects, versions, nextPid, userProjects, lastWrite>>

\* lines 388-396
DataCheckFile(s) ==
    /\ At(s, "data", "check_file")
    /\ LET r == req[s]
       IN  IF FileExists(blobs, r.file_path)
           THEN Goto(s, [r EXCEPT !.pc = "load"])
           ELSE Goto(s, Respond(r, 404, "File not found"))
    /\ UNCHANGED <<dirs, blobs, projects, versions, nextPid, userProjects, faults, lastWrite>>

\* lines 426-452: the preview is read and returned; the columns are the
\* keys of the first row of the preview, and [] when the preview has no row
DataLoad(s) ==
    /\ At(s, "data", "load")
    /\ LET r == req[s]
       IN  IF ~SupportedExt(r.file_path)
           THEN Goto(s, Respond(r, 400, "Unsupported file format")) /\ UNCHANGED faults
           ELSE \E out \in ReadOutcomes(r.file_path) :
                   /\ Fault(out)
                   /\ IF out = "ok"
                      THEN LET rows == clean_and_preview(blobs[r.file_path], num_rows)
                           IN  Goto(s, [Respond(r, 200, "success")
                                   EXCEPT !.rows = rows,
                                          !.column_names =
                                              IF rows # <<>>
                                              THEN [j \in 1..Len(rows[1]) |-> rows[1][j][1]]
                                              ELSE <<>>])
                      ELSE Goto(s, Respond(r, 500, "Error reading the file"))
    /\ UNCHANGED <<dirs, blobs, projects, versions, nextPid, userProjects, lastWrite>>

Data(s) ==
    \/ \E project_id \in ProjectIds : DataStart(s, project_id)
    \/ DataGetProject(s)
    \/ DataCheckFile(s)
    \/ DataLoad(s)

-----------------------------------------------------------------------------
(* The system *)

Init ==
    /\ dirs = {}
    /\ blobs = <<>>
    /\ projects = <<>>
    /\ versions = <<>>
    /\ nextPid = 1
    /\ userProjects = {}
    /\ faults = 0
    /\ lastWrite = <<>>
    /\ req = [s \in Slots |-> IdleReq]
    /\ pre = [s \in Slots |->
                [dirs |-> {}, blobs |-> <<>>, projects |-> <<>>, versions |-> <<>>,
                 faults |-> 0]]

Next == \E s \in Slots : Upload(s) \/ Rename(s) \/ Partition(s) \/ Delete(s) \/ Data(s)

Spec == Init /\ [][Next]_vars

-----------------------------------------------------------------------------
(* GET /dataset/get_column_names *)

\* lines 62-66: get_project is called outside any try; ObjectId(project_id)
\* raises InvalidId, which is not a PyMongoError, for a malformed id
ColumnsGetProject(s) ==
    /\ At(s, "columns", "get_project")
    /\ LET r == req[s]
       IN  IF r.project_id = MalformedId
           THEN Goto(s, Raise(r, "bson.errors.InvalidId")) /\ UNCHANGED faults
           ELSE \E out \in StoreOutcomes :
                   /\ Fault(out)
                   /\ IF out = "ok" /\ r.project_id \in DOMAIN projects
                      THEN Goto(s, [r EXCEPT !.pc = "check_file",
                                      !.file_path = projects[r.project_id].file_path])
                      ELSE Goto(s, Respond(r, 404, "Project not found"))
    /\ UNCHANGED <<dirs, blobs, projects, versions, nextPid, userProjects, lastWrite>>

\* lines 68-71
ColumnsCheckFile(s) ==
    /\ At(s, "columns", "check_file")
    /\ LET r == req[s]
       IN  IF FileExists(blobs, r.file_path)
           THEN Goto(s, [r EXCEPT !.pc = "load"])
           ELSE Goto(s, Respond(r, 404, "File not found"))
    /\ UNCHANGED <<dirs, blobs, projects, versions, nextPid, userProjects, faults, lastWrite>>

\* lines 73-89: the header of the file is read and returned
ColumnsLoad(s) ==
    /\ At(s, "columns", "load")
    /\ LET r == req[s]
       IN  IF ~SupportedExt(r.file_path)
           THEN Goto(s, Respond(r, 400, "Unsupported file format")) /\ UNCHANGED faults
           ELSE \E out \in ReadOutcomes(r.file_path) :
                   /\ Fault(out)
                   /\ IF out = "ok"
                      THEN Goto(s, [Respond(r, 200, "success")
                                       EXCEPT !.column_names = blobs[r.file_path].cols])
                      ELSE Goto(s, Respond(r, 500, "Error reading file"))
    /\ UNCHANGED <<dirs, blobs, projects, versions, nextPid, userProjects, lastWrite>>

-----------------------------------------------------------------------------
(* Two requests at a time.  Two projects have been uploaded; every slot    *)
(* holds one request that has just arrived, and the steps of the two       *)
(* requests interleave.  One store or file call may fail.                  *)

ConcSlots == {1, 2}

\* the ids of the two projects that exist
ConcP == MaxProjects + 1

ConcQ == MaxProjects + 2

ConcUploadP ==
    [name |-> <<"p">>, stem |-> <<"data">>, ext |-> ".csv",
     content |-> TaggedTable, remove_duplicates |-> TRUE]

ConcUploadQ ==
    [name |-> <<"q">>, stem |-> <<"data">>, ext |-> ".csv",
     content |-> UntaggedTable, remove_duplicates |-> FALSE]

ConcUploadR ==
    [name |-> <<"r">>, stem |-> <<"data">>, ext |-> ".csv",
     content |-> UntaggedTable, remove_duplicates |-> FALSE]

\* the path save_file gives the raw file of an upload
RawPath(u) ==
    [dir |-> ProjectFolder(u.name), stem |-> secure_filename(u.stem), ext |-> u.ext]

\* the files, the ledger and the projects after upload_dataset has succeeded
\* for upload u and the project got the id
IngestedBlobs(fs, u) ==
    PutFile(PutFile(fs, RawPath(u), u.content),
            V1Path(RawPath(u)),
            WriteTable(CleanTable(ReadTable(u.content), u.remove_duplicates)))

IngestedVersions(vs, id, u) ==
    CreateVersion(CreateVersion(vs, id, "Initial version", RawPath(u), WholeVersion(0)),
                  id, "Processed version with cleaned data", V1Path(RawPath(u)),
                  WholeVersion(1))

IngestedProjects(ps, id, u) ==
    AppendVersionInfo(
        UpdateAllFields(
            AppendVersionInfo(
                InsertProject(ps, id, NewProject(u.name, RawPath(u), u.remove_duplicates)),
                id, [label |-> "v0", id |-> <<id, 1>>]),
            id, UploadFields(V1Path(RawPath(u)))),
        id, [label |-> "v1", id |-> <<id, 2>>])

ConcDirs == {ProjectFolder(ConcUploadP.name), ProjectFolder(ConcUploadQ.name)}

ConcBlobs == IngestedBlobs(IngestedBlobs(<<>>, ConcUploadP), ConcUploadQ)

ConcVersions ==
    IngestedVersions(IngestedVersions(<<>>, ConcP, ConcUploadP), ConcQ, ConcUploadQ)

ConcProjects ==
    IngestedProjects(IngestedProjects(<<>>, ConcP, ConcUploadP), ConcQ, ConcUploadQ)

\* the requests that arrive
ConcRequests ==
    {[IdleReq EXCEPT !.op = "upload", !.pc = "save_exists",
         !.name = name, !.remove_duplicates = ConcUploadR.remove_duplicates,
         !.filename = [dir |-> <<>>, stem |-> ConcUploadR.stem, ext |-> ConcUploadR.ext],
         !.content = ConcUploadR.content] :
        name \in {ConcUploadR.name, <<"..", "/">> \o ConcUploadR.name}}
    \cup
    {[IdleReq EXCEPT !.op = "rename", !.pc = "get_project",
         !.project_id = p, !.mapping = m] : p \in {ConcP, ConcQ}, m \in ColumnMappings}
    \cup
    {[IdleReq EXCEPT !.op = o, !.pc = "get_project", !.project_id = p] :
        o \in {"partition", "delete"}, p \in {ConcP, ConcQ}}
    \cup
    {[IdleReq EXCEPT !.op = "columns", !.pc = "get_project", !.project_id = p] :
        p \in {ConcP, MalformedId}}

ConcInit ==
    /\ dirs = ConcDirs
    /\ blobs = ConcBlobs
    /\ projects = ConcProjects
    /\ versions = ConcVersions
    /\ nextPid = 1
    /\ userProjects = {ConcP, ConcQ}
    /\ faults = MaxFaults - 1
    /\ lastWrite = [d \in ConcDirs |->
                       IF d = ProjectFolder(ConcUploadP.name)
                       THEN V1Path(RawPath(ConcUploadP))
                       ELSE V1Path(RawPath(ConcUploadQ))]
    /\ req \in [ConcSlots -> ConcRequests]
    /\ pre = [s \in ConcSlots |->
                [dirs |-> ConcDirs, blobs |-> ConcBlobs, projects |-> ConcProjects,
                 versions |-> ConcVersions, faults |-> MaxFaults - 1]]

\* a step of the request in slot s
ConcStep(s) ==
        \/ SaveFileExists(s)
        \/ SaveFileMkdir(s)
        \/ SaveFileWrite(s)
        \/ UploadCreateProject(s)
        \/ UploadCreateVersion0(s)
        \/ UploadRollbackProject(s)
        \/ UploadAppendVersion0(s)
        \/ UploadLoad(s)
        \/ UploadWriteV1(s)
        \/ UploadCreateVersion1(s)
        \/ UploadUpdateProject(s)
        \/ UploadAppendVersion1(s)
        \/ UploadAddProject(s)
        \/ RenameGetProject(s)
        \/ RenameCheckFile(s)
        \/ RenameLoad(s)
        \/ RenameWriteV2(s)
        \/ RenameCreateVersion2(s)
        \/ RenameUpdateProject(s)
        \/ PartitionGetProject(s)
        \/ PartitionCheckFile(s)
        \/ PartitionLoad(s)
        \/ PartitionMkdir(s)
        \/ PartitionWriteGroup(s)
        \/ PartitionRecordGroup(s)
        \/ PartitionUpdateProject(s)
        \/ DeleteGetProject(s)
        \/ DeleteRemoveFiles(s)
        \/ DeleteRmdir(s)
        \/ DeleteProjectDocument(s)
        \/ DeleteRemoveProject(s)
        \/ ColumnsGetProject(s)
        \/ ColumnsCheckFile(s)
        \/ ColumnsLoad(s)

ConcNext == \E s \in ConcSlots : ConcStep(s)

ConcSpec == ConcInit /\ [][ConcNext]_vars

\* one request on its own, from the same state
TermInit ==
    /\ dirs = ConcDirs
    /\ blobs = ConcBlobs
    /\ projects = ConcProjects
    /\ versions = ConcVersions
    /\ nextPid = 1
    /\ userProjects = {ConcP, ConcQ}
    /\ faults = MaxFaults - 1
    /\ lastWrite = [d \in ConcDirs |->
                       IF d = ProjectFolder(ConcUploadP.name)
                       THEN V1Path(RawPath(ConcUploadP))
                       ELSE V1Path(RawPath(ConcUploadQ))]
    /\ req \in [Slots -> ConcRequests]
    /\ pre = [s \in Slots |->
                [dirs |-> ConcDirs, blobs |-> ConcBlobs, projects |-> ConcProjects,
                 versions |-> ConcVersions, faults |-> MaxFaults - 1]]

TermNext == \E s \in Slots : ConcStep(s)

\* every call of a handler returns, with a result or with an exception, so
\* a request that can take its next step takes it
TermSpec == TermInit /\ [][TermNext]_vars /\ WF_vars(TermNext)

-----------------------------------------------------------------------------
(* The table functions on their own: a request holds one input, drawn from *)
(* a bounded set, and one step applies the function as the handler does.   *)

PureTags == {"", "NA", "A"}

PureTypes == {"", "X", "Y"}

PureRows == {<<t, y>> : t \in PureTags, y \in PureTypes}

\* the files of up to MaxRows rows with the tag and the tag-type column
PureTables ==
    {[cols |-> <<tag_column, tag_type_column>>, rows |-> rows] :
        rows \in UNION {[1..k -> PureRows] : k \in 0..MaxRows}}

PureColumnNames == {"Old", "Val", "Tags"}

\* the headers a table to rename can have: distinct names, in any order
PureHeaders ==
    {h \in UNION {[1..k -> PureColumnNames] : k \in 1..3} :
        \A i, j \in 1..Len(h) : h[i] = h[j] => i = j}

\* project names and file names as clients send them
PureNames == {<<"p">>, <<"..", "/", "p">>, <<"p", "/", "..">>}

\* the texts a cell of the tag column can hold
PureTagTexts == {"", "A", "../A"}

PureKeys == <<"Old", "Val", "Missing">>

PureTargets == {"-", "New", " ", ""}

\* the mappings: every key is absent ("-") or has one target
PureMappings ==
    {{<<PureKeys[i], f[i]>> : i \in {j \in 1..3 : f[j] # "-"}} : f \in [1..3 -> PureTargets]}

\* the first n of the keys a grouping can yield, in iteration order
PureGroups(n) ==
    SubSeq(SortKeys({<<a, b>> : a \in Range(CellOrder), b \in Range(CellOrder)}), 1, n)

PureRequests ==
    {[IdleReq EXCEPT !.op = "rename_columns", !.pc = "input",
         !.content = [cols |-> h, rows |-> << SubSeq(<<"1", "2", "3">>, 1, Len(h)) >>],
         !.mapping = m] :
        h \in PureHeaders, m \in PureMappings}
    \cup
    {[IdleReq EXCEPT !.op = "clean", !.pc = "input",
         !.content = t, !.remove_duplicates = rd] :
        t \in PureTables, rd \in BOOLEAN}
    \cup
    {[IdleReq EXCEPT !.op = "groupby", !.pc = "input", !.content = t] :
        t \in PureTables \cup
              {[cols |-> <<tag_column, tag_type_column>>, rows |-> <<r1, r2>>] :
                  r1 \in PureRows, r2 \in {<<"Untagged", y>> : y \in PureTypes}}}
    \cup
    {[IdleReq EXCEPT !.op = "numbering", !.pc = "input",
         !.grouped = PureGroups(n), !.version_counter = 1,
         !.file_path = [dir |-> ProjectFolder(<<"p">>), stem |-> <<"data", "_v2">>,
                        ext |-> ".csv"],
         !.name = <<"p">>] :
        n \in 1..MaxGroups}
    \cup
    {[IdleReq EXCEPT !.op = "locate", !.pc = "input", !.name = name,
         !.filename = [dir |-> <<>>, stem |-> stem, ext |-> ".csv"],
         !.grouped = << <<tag, tag_type>> >>, !.version_counter = 1] :
        name \in PureNames, stem \in PureNames, tag \in PureTagTexts,
        tag_type \in PureTypes}
    \cup
    {[IdleReq EXCEPT !.op = f, !.pc = "input", !.content = ReadTable(t)] :
        f \in {"dropna", "drop_duplicates"}, t \in PureTables}

PureInit ==
    /\ dirs = {}
    /\ blobs = <<>>
    /\ projects = <<>>
    /\ versions = <<>>
    /\ nextPid = 1
    /\ userProjects = {}
    /\ faults = 0
    /\ lastWrite = <<>>
    /\ req \in [Slots -> PureRequests]
    /\ pre = [s \in Slots |->
                [dirs |-> {}, blobs |-> <<>>, projects |-> <<>>, versions |-> <<>>,
                 faults |-> 0]]

PureKeep ==
    UNCHANGED <<dirs, blobs, projects, versions, nextPid, userProjects, faults, lastWrite>>

\* update_column_names, line 143, on the table as loaded
PureRename(s) ==
    /\ At(s, "rename_columns", "input")
    /\ Goto(s, [req[s] EXCEPT !.pc = "output",
                   !.df = RenameColumns(req[s].content, req[s].mapping)])
    /\ PureKeep

\* upload_dataset, lines 131-169: read the raw file, clean, write version 1
PureClean(s) ==
    /\ At(s, "clean", "input")
    /\ Goto(s, [req[s] EXCEPT !.pc = "output",
                   !.df = WriteTable(CleanTable(ReadTable(req[s].content),
                                                req[s].remove_duplicates))])
    /\ PureKeep

\* partition_by_tags, lines 245-282: the groups, then for each group in turn
\* its sub-table and its entry of tag_groups
PureGroup(s) ==
    /\ req[s].op = "groupby"
    /\ req[s].pc \in {"input", "loop"}
    /\ LET r == req[s]
       IN  IF r.pc = "input"
           THEN Goto(s, [r EXCEPT !.pc = "loop", !.df = ReadTable(r.content),
                           !.grouped = GroupKeys(ReadTable(r.content)),
                           !.version_counter = 1])
           ELSE IF r.version_counter > Len(r.grouped)
           THEN Goto(s, [r EXCEPT !.pc = "output"])
           ELSE LET key == r.grouped[r.version_counter]
                IN  Goto(s, [r EXCEPT !.version_counter = @ + 1,
                                !.sub_versions = Append(@,
                                    [tag      |-> TagName(key[1]),
                                     tag_type |-> TagTypeName(key[2]),
                                     table    |-> WriteTable(GroupTable(r.df, key))]),
                                !.tag_groups = GroupSummary(@, TagName(key[1]),
                                                   TagTypeName(key[2]),
                                                   GroupTable(r.df, key))])
    /\ PureKeep

\* partition_by_tags, lines 246-282: the file name and the version number of
\* the next group, until the groups are used up
PureNumber(s) ==
    /\ At(s, "numbering", "input")
    /\ LET r == req[s]
       IN  IF r.version_counter > Len(r.grouped)
           THEN Goto(s, [r EXCEPT !.pc = "output"])
           ELSE Goto(s, [r EXCEPT !.version_counter = @ + 1,
                            !.sub_versions = Append(@,
                                [file_path      |-> GroupPath(r),
                                 version_number |-> PartitionVersion(r.version_counter)])])
    /\ PureKeep

\* save_file, lines 33-47, and partition_by_tags, lines 240-252: where the
\* raw file and the file of a group are written
PureLocate(s) ==
    /\ At(s, "locate", "input")
    /\ LET r == req[s]
       IN  Goto(s, [r EXCEPT !.pc = "output",
                       !.file_path = Location([dir  |-> ProjectFolder(r.name),
                                               stem |-> secure_filename(r.filename.stem),
                                               ext  |-> r.filename.ext]),
                       !.new_file_path =
                           Location(PartitionPath(ProjectFolder(r.name),
                                                  TagName(r.grouped[1][1]),
                                                  TagTypeName(r.grouped[1][2]),
                                                  r.version_counter, r.filename.ext))])
    /\ PureKeep

\* upload_dataset, line 150, on a loaded table and again on its result
PureDropna(s) ==
    /\ req[s].op = "dropna"
    /\ req[s].pc \in {"input", "once"}
    /\ Goto(s, IF req[s].pc = "input"
               THEN [req[s] EXCEPT !.pc = "once", !.df = DropEmptyRows(req[s].content)]
               ELSE [req[s] EXCEPT !.pc = "twice", !.twice = DropEmptyRows(req[s].df)])
    /\ PureKeep

\* upload_dataset, line 154, on a loaded table and again on its result
PureDedup(s) ==
    /\ req[s].op = "drop_duplicates"
    /\ req[s].pc \in {"input", "once"}
    /\ Goto(s, IF req[s].pc = "input"
               THEN [req[s] EXCEPT !.pc = "once", !.df = DropDuplicates(req[s].content)]
               ELSE [req[s] EXCEPT !.pc = "twice", !.twice = DropDuplicates(req[s].df)])
    /\ PureKeep

\* update_column_names, lines 153-156, and partition_by_tags, lines 219-224:
\* the renamed table is written and the next operation loads the file
PureReload(s) ==
    /\ At(s, "rename_columns", "output")
    /\ Goto(s, [req[s] EXCEPT !.pc = "reloaded",
                   !.loaded = ReadTable(WriteTable(req[s].df))])
    /\ PureKeep

PureNext ==
    \E s \in Slots :
        \/ PureRename(s)
        \/ PureClean(s)
        \/ PureGroup(s)
        \/ PureNumber(s)
        \/ PureLocate(s)
        \/ PureDropna(s)
        \/ PureDedup(s)
        \/ PureReload(s)

PureSpec == PureInit /\ [][PureNext]_vars

-----------------------------------------------------------------------------
(* Properties *)

Done(s, op) == req[s].op = op /\ req[s].pc = "done"

Succeeded(s, op) == Done(s, op) /\ req[s].code \in {200, 201}

\* no request is running
AtRest == \A s \in Slots : req[s].pc = "done"

\* the stores are as they were when the request of slot s started
StoresUnchanged(s) ==
    /\ dirs = pre[s].dirs
    /\ blobs = pre[s].blobs
    /\ projects = pre[s].projects
    /\ versions = pre[s].versions

\* no store or file call of the request of slot s has failed
NoFault(s) == faults = pre[s].faults

EntriesAt(project_id, version_number, files_path) ==
    {v \in VersionsOf(versions, project_id) :
        /\ versions[v].version_number = version_number
        /\ versions[v].files_path = files_path}

\* C1: after an upload that reports success, the project's ledger holds
\* exactly two entries, version 0 at the raw upload's location and version 1
\* at the cleaned file's location, and the project document has file_path at
\* the version-1 location and version_number 1.
C1_IngestSuccess ==
    \A s \in Slots :
        Succeeded(s, "upload") =>
            LET r == req[s]
                raw == [dir  |-> ProjectFolder(r.name),
                        stem |-> r.filename.stem,
                        ext  |-> r.filename.ext]
                cleaned == [raw EXCEPT !.stem = @ \o <<"_v1">>]
            IN  /\ r.project_id \in DOMAIN projects
                /\ Cardinality(VersionsOf(versions, r.project_id)) = 2
                /\ Cardinality(EntriesAt(r.project_id, WholeVersion(0), raw)) = 1
                /\ Cardinality(EntriesAt(r.project_id, WholeVersion(1), cleaned)) = 1
                /\ projects[r.project_id].file_path = cleaned
                /\ projects[r.project_id].version_number = WholeVersion(1)

C1_Witness == \E s \in Slots : Succeeded(s, "upload")

\* the ledger entry of a project that was recorded last
LatestVersion(project_id) ==
    CHOOSE v \in VersionsOf(versions, project_id) :
        \A w \in VersionsOf(versions, project_id) : w[2] <= v[2]

\* C2: whenever no operation is running, a project that has not been
\* partitioned has file_path at the location of its most recently recorded
\* ledger entry, and a partitioned project has file_path equal to the
\* sentinel with sub_versions set.
C2_PointerIsLatest ==
    AtRest =>
        \A p \in DOMAIN projects :
            IF HasSubVersions(projects[p])
            THEN projects[p].file_path = Sentinel
            ELSE /\ VersionsOf(versions, p) # {}
                 /\ projects[p].file_path = versions[LatestVersion(p)].files_path

\* C3: the ledger is append-only: no step of any handler removes a ledger
\* entry or changes the description, location or version number of one.
C3_LedgerAppendOnly ==
    [][\A v \in DOMAIN versions : v \in DOMAIN versions' /\ versions'[v] = versions[v]]_vars

\* a second rename has recorded its entry beside the first one's
C3_Witness ==
    \E s \in Slots :
        /\ Succeeded(s, "rename")
        /\ Cardinality({v \in VersionsOf(versions, req[s].project_id) :
                           versions[v].version_number = WholeVersion(2)}) >= 2

IsPartitioned(doc) == doc.file_path = Sentinel

\* C4: transitions are one-directional: a project's version_number never
\* decreases, and a partitioned project stays partitioned (its file_path
\* stays the sentinel and its sub_versions stay set).
C4_OneDirectional ==
    [][\A p \in DOMAIN projects \cap DOMAIN projects' :
          /\ projects'[p].version_number >= projects[p].version_number
          /\ IsPartitioned(projects[p]) => IsPartitioned(projects'[p])
          /\ HasSubVersions(projects[p]) => HasSubVersions(projects'[p])]_vars

\* a renamed project has been partitioned, and the partitioned project has
\* then been asked to rename
C4_Witness ==
    \E s \in Slots :
        /\ Done(s, "rename")
        /\ req[s].project_id \in DOMAIN pre[s].projects
        /\ IsPartitioned(pre[s].projects[req[s].project_id])
        /\ Cardinality({v \in VersionsOf(versions, req[s].project_id) :
                           versions[v].version_number = WholeVersion(2)}) >= 1

\* C5: whenever partition_by_tags reports success, the project's file_path
\* is the sentinel, its version_number is 2, and its sub_versions hold exactly
\* one descriptor for every (tag, tag type) group of the table, in iteration
\* order, each naming a ledger entry and a blob that exist.
C5_PartitionSuccess ==
    \A s \in Slots :
        Succeeded(s, "partition") =>
            LET r == req[s]
            IN  /\ r.project_id \in DOMAIN projects
                /\ projects[r.project_id].file_path = Sentinel
                /\ projects[r.project_id].version_number = WholeVersion(2)
                /\ HasSubVersions(projects[r.project_id])
                /\ LET subs == projects[r.project_id].sub_versions
                   IN  /\ Len(subs) = Len(r.grouped)
                       /\ \A i \in 1..Len(subs) :
                             /\ subs[i].tag = TagName(r.grouped[i][1])
                             /\ subs[i].tag_type = TagTypeName(r.grouped[i][2])
                             /\ subs[i].version \in DOMAIN versions
                             /\ subs[i].file_path \in DOMAIN blobs

\* the table a project pointed at when the request of slot s started can be
\* read and lacks the tag column or the tag-type column
LacksTagColumn(s) ==
    LET p == req[s].project_id
    IN  /\ p \in DOMAIN pre[s].projects
        /\ LET path == pre[s].projects[p].file_path
           IN  /\ path \in DOMAIN pre[s].blobs
               /\ path.ext \in {".csv", ".xlsx"}
               /\ pre[s].blobs[path] # EmptyFile
               /\ \/ "Tags" \notin Range(pre[s].blobs[path].cols)
                  \/ "Tag Type" \notin Range(pre[s].blobs[path].cols)

MissingColumnErrors == {"Tags column not found in file", "Tag Type column not found in file"}

\* C6: a partition of a project whose current table lacks the tag column or
\* the tag-type column does not succeed and leaves the directories, the
\* blobs, the project documents and the ledger as they were before the call;
\* when no store or file call failed, its answer is the missing-column error.
C6_MissingColumn ==
    \A s \in Slots :
        Done(s, "partition") /\ LacksTagColumn(s) =>
            /\ StoresUnchanged(s)
            /\ req[s].code \notin {200, 201}
            /\ NoFault(s) => req[s].code = 400 /\ req[s].msg \in MissingColumnErrors

\* a table with the tag column and without the tag-type column was refused
C6_Witness ==
    \E s \in Slots :
        /\ Done(s, "partition")
        /\ LacksTagColumn(s)
        /\ req[s].msg = "Tag Type column not found in file"

\* C7: when a rename fails at the serialize step or at the ledger-record
\* step, then at its error response the version-2 blob does not exist, and
\* the project's file_path and version_number are unchanged and name an
\* existing blob.
C7_RenameFailure ==
    \A s \in Slots :
        /\ Done(s, "rename")
        /\ req[s].code = 500
        /\ req[s].msg \in {UnexpectedError, "Failed to create version 2"}
        => LET r == req[s]
           IN  /\ r.new_file_path \notin DOMAIN blobs
               /\ r.project_id \in DOMAIN projects
               /\ projects[r.project_id].file_path = pre[s].projects[r.project_id].file_path
               /\ projects[r.project_id].version_number
                     = pre[s].projects[r.project_id].version_number
               /\ projects[r.project_id].file_path \in DOMAIN blobs

\* C8: when, during an upload, the project document was created and the
\* recording of version 0 or of version 1 then fails, no document of that
\* project remains at the error response.
C8_IngestVersionFailure ==
    \A s \in Slots :
        /\ Done(s, "upload")
        /\ req[s].msg \in {"Failed to create version 0", "Failed to create version 1"}
        => req[s].project_id \notin DOMAIN projects

\* C9: after delete_project reports success, no ledger entry of that project
\* remains.
C9_DeleteCascadesLedger ==
    \A s \in Slots :
        Succeeded(s, "delete") => VersionsOf(versions, req[s].project_id) = {}

\* C10: after delete_project reports success, the project's directory is
\* gone and no blob remains in it.
C10_DeleteRemovesBlobs ==
    \A s \in Slots :
        Succeeded(s, "delete") =>
            LET folder == ProjectFolder(pre[s].projects[req[s].project_id].name)
            IN  /\ folder \notin dirs
                /\ FilesIn(blobs, folder) = {}

\* C11: a successful rename adds exactly one ledger entry, numbered 2 and
\* located at the newly written blob, sets the project's file_path to that
\* location and its version_number to 2, and leaves the previously current
\* blob, every earlier ledger entry and the project's name, owner,
\* version_info and datatype_mapping unchanged.
C11_RenameSuccess ==
    \A s \in Slots :
        Succeeded(s, "rename") =>
            LET r     == req[s]
                old   == pre[s].projects[r.project_id]
                new   == projects[r.project_id]
                added == DOMAIN versions \ DOMAIN pre[s].versions
            IN  /\ Cardinality(added) = 1
                /\ \A v \in added :
                      /\ versions[v].project_id = r.project_id
                      /\ versions[v].version_number = WholeVersion(2)
                      /\ versions[v].files_path = r.new_file_path
                /\ r.new_file_path \in DOMAIN blobs
                /\ r.new_file_path # old.file_path
                /\ new.file_path = r.new_file_path
                /\ new.version_number = WholeVersion(2)
                /\ old.file_path \in DOMAIN blobs
                /\ blobs[old.file_path] = pre[s].blobs[old.file_path]
                /\ \A v \in DOMAIN pre[s].versions :
                      v \in DOMAIN versions /\ versions[v] = pre[s].versions[v]
                /\ new.name = old.name
                /\ new.user_id = old.user_id
                /\ new.version_info = old.version_info
                /\ new.datatype_mapping = old.datatype_mapping

\* a project that was already renamed has been renamed again
C11_Witness ==
    \E s \in Slots :
        /\ Succeeded(s, "rename")
        /\ pre[s].projects[req[s].project_id].version_number = WholeVersion(2)

\* C12: renaming yields a table with the same number of columns in the same
\* order and the same rows, where a column carries its mapped name exactly
\* when it is a key of the mapping whose target is not empty or whitespace;
\* a column with a blank target keeps its name and a key that matches no
\* column changes nothing.
C12_RenameColumns ==
    \A s \in Slots :
        At(s, "rename_columns", "output") =>
            LET in  == req[s].content
                out == req[s].df
                Target(c) == {e[2] : e \in {x \in req[s].mapping :
                                               x[1] = c /\ x[2] \notin {"", " ", "  "}}}
            IN  /\ Len(out.cols) = Len(in.cols)
                /\ out.rows = in.rows
                /\ \A i \in 1..Len(in.cols) :
                      IF Target(in.cols[i]) = {}
                      THEN out.cols[i] = in.cols[i]
                      ELSE out.cols[i] \in Target(in.cols[i])

\* one column was renamed, one had a blank target, one key matched no column
C12_Witness ==
    \E s \in Slots :
        /\ At(s, "rename_columns", "output")
        /\ req[s].mapping = {<<"Old", "New">>, <<"Val", " ">>, <<"Missing", "New">>}
        /\ req[s].content.cols = <<"Val", "Tags", "Old">>
        /\ req[s].df.cols = <<"Val", "Tags", "New">>

\* a row of a raw file with a cell that is not empty
RawKeepRow(r) == \E i \in 1..Len(r) : r[i] # ""

\* C13: the version-1 table equals the raw table without the rows whose
\* cells are all empty and, exactly when remove_duplicates is true, without
\* the rows that duplicate an earlier row; rows and columns keep their order.
C13_CleanedTable ==
    \A s \in Slots :
        At(s, "clean", "output") =>
            LET raw  == req[s].content
                kept == SelectSeq(raw.rows, RawKeepRow)
            IN  /\ req[s].df.cols = raw.cols
                /\ req[s].df.rows = IF req[s].remove_duplicates
                                    THEN DedupRows(kept, {})
                                    ELSE kept

\* the tag and the tag type of a row of a loaded table
PairOf(df, row) == <<row[ColIndex(df, "Tags")], row[ColIndex(df, "Tag Type")]>>

\* the sub-tables a row of the loaded table is found in
LandsIn(r, i) ==
    {k \in 1..Len(r.sub_versions) :
        MapSeq(r.df.rows[i], WriteCell) \in Range(r.sub_versions[k].table.rows)}

\* C14: the sub-tables form a partition of the rows: every row is in exactly
\* one sub-table, two rows are in the same sub-table exactly when their
\* (tag, tag type) pairs are equal, no row is lost or repeated, and a missing
\* tag is named Untagged and a missing tag type Unknown, each on its own.
C14_TruePartition ==
    \A s \in Slots :
        At(s, "groupby", "output") =>
            LET r == req[s]
                n == Len(r.df.rows)
            IN  /\ \A i \in 1..n : Cardinality(LandsIn(r, i)) = 1
                /\ \A i, j \in 1..n :
                      (PairOf(r.df, r.df.rows[i]) = PairOf(r.df, r.df.rows[j]))
                          <=> (LandsIn(r, i) = LandsIn(r, j))
                /\ \A k \in 1..Len(r.sub_versions) :
                      Len(r.sub_versions[k].table.rows)
                          = Cardinality({i \in 1..n : k \in LandsIn(r, i)})
                /\ \A i \in 1..n : \A k \in LandsIn(r, i) :
                      LET pair == PairOf(r.df, r.df.rows[i])
                      IN  /\ r.sub_versions[k].tag
                                = IF pair[1] = NaN THEN "Untagged" ELSE pair[1]
                          /\ r.sub_versions[k].tag_type
                                = IF pair[2] = NaN THEN "Unknown" ELSE pair[2]

\* rows without a tag and with different tag types went to two sub-tables,
\* beside a tagged row without a tag type
C14_Witness ==
    \E s \in Slots :
        /\ At(s, "groupby", "output")
        /\ req[s].content.rows = << <<"", "X">>, <<"A", "">>, <<"NA", "Y">> >>
        /\ Len(req[s].sub_versions) = 3

\* C15: the N-th group of a partition is written to a file ending in _v2.N
\* and gets the version number 2.N, and the version numbers of the groups of
\* one partition are pairwise distinct, for ten and more groups too.
C15_DistinctNumbers ==
    \A s \in Slots :
        req[s].op = "numbering" =>
            LET subs == req[s].sub_versions
            IN  /\ \A i \in 1..Len(subs) :
                      /\ SubSeq(subs[i].file_path.stem, 4, Len(subs[i].file_path.stem))
                            = <<"_v2.">> \o DecStr(i)
                      /\ subs[i].version_number > WholeVersion(2)
                      /\ subs[i].version_number < WholeVersion(3)
                /\ \A i, j \in 1..Len(subs) :
                      subs[i].version_number = subs[j].version_number => i = j

\* C16: when a partition fails while it processes group k > 1, the blobs and
\* the ledger entries of the groups before k remain, and the project's
\* file_path, sub_versions and version_number are as before the call, so
\* that no field of the project refers to those blobs and entries.
C16_PartialPartition ==
    \A s \in Slots :
        /\ Done(s, "partition")
        /\ req[s].code = 500
        /\ req[s].version_counter > 1
        => LET r     == req[s]
               added == DOMAIN versions \ DOMAIN pre[s].versions
               Path(j) == GroupPath([r EXCEPT !.version_counter = j])
           IN  /\ \A j \in 1..(r.version_counter - 1) : Path(j) \in DOMAIN blobs
               /\ Cardinality(added) = Len(r.sub_versions)
               /\ \A i \in 1..Len(r.sub_versions) :
                     /\ r.sub_versions[i].version \in added
                     /\ versions[r.sub_versions[i].version].files_path
                           = r.sub_versions[i].file_path
                     /\ r.sub_versions[i].file_path \in DOMAIN blobs
               /\ projects = pre[s].projects
               /\ ~HasSubVersions(projects[r.project_id])
               /\ \A j \in 1..(r.version_counter - 1) :
                     projects[r.project_id].file_path # Path(j)

\* the write of the second or a later group failed after an earlier group
\* was written and recorded
C16_Witness ==
    \E s \in Slots :
        /\ Done(s, "partition")
        /\ req[s].code = 500
        /\ req[s].version_counter > 1
        /\ Len(req[s].sub_versions) >= 1

\* C17: an upload whose sanitized project name is the name of a directory
\* that exists is rejected with the name-collision error, and directories,
\* blobs, project documents and ledger are as before the call.
C17_NameCollision ==
    \A s \in Slots :
        Done(s, "upload") /\ ProjectFolder(req[s].name) \in pre[s].dirs =>
            /\ req[s].code = 400
            /\ req[s].msg
                  = "A project with this name already exists. Please choose a different project name."
            /\ StoresUnchanged(s)

\* a name that differs from the existing project's name and sanitizes to its
\* directory was rejected
C17_Witness ==
    \E s \in Slots :
        /\ Done(s, "upload")
        /\ req[s].msg
              = "A project with this name already exists. Please choose a different project name."
        /\ \E p \in DOMAIN projects :
              /\ projects[p].name # req[s].name
              /\ ProjectFolder(projects[p].name) = ProjectFolder(req[s].name)

\* no request is running, in any slot
AllAtRest == \A s \in DOMAIN req : req[s].pc = "done"

\* no store or file call has failed since the requests arrived
NoFaults == \A s \in DOMAIN req : faults = pre[s].faults

\* the pointer of project p agrees with the file written most recently in
\* the project's directory: it names that file, or it is the sentinel and a
\* descriptor of sub_versions names that file
PointerAtLastWrite(p) ==
    LET doc == projects[p]
        dir == ProjectFolder(doc.name)
    IN  /\ dir \in DOMAIN lastWrite
        /\ IF doc.file_path = Sentinel
           THEN /\ HasSubVersions(doc)
                /\ \E i \in 1..Len(doc.sub_versions) :
                      doc.sub_versions[i].file_path = lastWrite[dir]
           ELSE doc.file_path = lastWrite[dir]

\* a rename and a partition of project p have both succeeded after both
\* read the same pointer, that is, before either updated it
OverlappedOn(p) ==
    \E a, b \in DOMAIN req :
        /\ Succeeded(a, "rename")
        /\ Succeeded(b, "partition")
        /\ req[a].project_id = p
        /\ req[b].project_id = p
        /\ req[a].file_path = req[b].file_path

\* C18: nothing keeps the steps write blob, record ledger entry, update
\* pointer of two requests apart: when no call has failed and all requests
\* have answered, a project's pointer disagrees with the most recently
\* written blob only after a rename and a partition of that project that
\* overlapped, and such an interleaving exists (C18_Witness).
C18_RaceBreaksPointer ==
    AllAtRest /\ NoFaults =>
        \A p \in DOMAIN projects : ~PointerAtLastWrite(p) => OverlappedOn(p)

\* the pointer disagrees with the most recently written blob after an
\* overlapping rename and partition
C18_Witness ==
    /\ AllAtRest
    /\ NoFaults
    /\ \E p \in DOMAIN projects : ~PointerAtLastWrite(p) /\ OverlappedOn(p)

\* project q, its ledger entries and the files of its directory are the same
\* before and after the step
SameProject(q) ==
    /\ q \in DOMAIN projects'
    /\ projects'[q] = projects[q]
    /\ VersionsOf(versions', q) = VersionsOf(versions, q)
    /\ \A v \in VersionsOf(versions, q) : versions'[v] = versions[v]
    /\ FilesIn(blobs', ProjectFolder(projects[q].name))
          = FilesIn(blobs, ProjectFolder(projects[q].name))
    /\ \A f \in FilesIn(blobs, ProjectFolder(projects[q].name)) : blobs'[f] = blobs[f]
    /\ (ProjectFolder(projects[q].name) \in dirs')
          = (ProjectFolder(projects[q].name) \in dirs)

C20_StructuredErrors ==
    \A s \in DOMAIN req :
        req[s].pc = "done" /\ req[s].op # "idle" =>
            req[s].code \in {200, 201, 400, 404, 500}

\* C21: every file an operation writes lies in the directory of its
\* project: the raw upload, whatever the project name and the file name
\* hold, and the file of a partition group, whatever the tag and the tag
\* type hold.
C21_InsideProjectDirectory ==
    \A s \in Slots :
        At(s, "locate", "output") =>
            /\ req[s].file_path.dir = ProjectFolder(req[s].name)
            /\ req[s].new_file_path.dir = ProjectFolder(req[s].name)

\* C22: a partition succeeds only on a project in the Renamed state: the
\* project it was asked for had version_number 2 and its file_path was the
\* renamed file when the request arrived.
C22_PartitionFromRenamed ==
    \A s \in Slots :
        Succeeded(s, "partition") =>
            LET before == pre[s].projects[req[s].project_id]
            IN  /\ before.version_number = WholeVersion(2)
                /\ before.file_path.stem[Len(before.file_path.stem)] = "_v2"

\* the indices of the rows of T that no earlier row equals
FirstOccurrences(T) ==
    {i \in 1..Len(T.rows) : \A j \in 1..(i - 1) : T.rows[j] # T.rows[i]}

\* C23: deduplication is idempotent and keeps first occurrences: applied to
\* its own result it changes nothing, and its result holds the first
\* occurrence of each distinct row of T, in the order they have in T.
C23_DedupIdempotent ==
    \A s \in Slots :
        req[s].op = "drop_duplicates" /\ req[s].pc = "twice" =>
            LET T == req[s].content
                D == req[s].df
                F == FirstOccurrences(T)
            IN  /\ req[s].twice = D
                /\ D.cols = T.cols
                /\ Len(D.rows) = Cardinality(F)
                /\ \A i \in F : D.rows[Cardinality({j \in F : j <= i})] = T.rows[i]

\* a table whose first row comes back after another row was deduplicated twice
C23_Witness ==
    \E s \in Slots :
        /\ req[s].op = "drop_duplicates"
        /\ req[s].pc = "twice"
        /\ Len(req[s].content.rows) = 3
        /\ req[s].content.rows[1] = req[s].content.rows[3]
        /\ req[s].content.rows[1] # req[s].content.rows[2]
        /\ Len(req[s].twice.rows) = 2

\* C24: dropping empty rows is idempotent: applied to its own result it
\* changes nothing, and its result holds exactly the rows of T with at least
\* one cell that is not empty, in their order.
C24_DropEmptyIdempotent ==
    \A s \in Slots :
        req[s].op = "dropna" /\ req[s].pc = "twice" =>
            LET T == req[s].content
                HasValue(r) == \E i \in 1..Len(r) : r[i] # NaN
            IN  /\ req[s].twice = req[s].df
                /\ req[s].df.cols = T.cols
                /\ req[s].df.rows = SelectSeq(T.rows, HasValue)

\* a table with an empty row and a row that is empty in one cell only had
\* its empty rows dropped twice
C24_Witness ==
    \E s \in Slots :
        /\ req[s].op = "dropna"
        /\ req[s].pc = "twice"
        /\ req[s].content.rows = << <<NaN, NaN>>, <<"A", NaN>>, <<NaN, NaN>> >>
        /\ req[s].twice.rows = << <<"A", NaN>> >>

\* C25: writing an all-string table as CSV and loading the file returns the
\* same table: the same column names in the same order and the same cells
\* row by row.
C25_CsvRoundTrip ==
    \A s \in Slots :
        At(s, "rename_columns", "reloaded") => req[s].loaded = req[s].df

\* C26: every request ends with a response after finitely many steps when
\* each of its calls returns, and the partition loop makes one pass over the
\* groups: its counter never goes beyond the group after the last.
C26_Terminates ==
    /\ \A s \in Slots : <>(req[s].pc = "done")
    /\ [](\A s \in Slots :
             req[s].op = "partition" /\ req[s].pc \in {"write_group", "record_group"} =>
                 req[s].version_counter <= Len(req[s].grouped) + 1)

\* a partition has answered after a pass over three groups
C26_Witness ==
    \E s \in Slots :
        /\ Succeeded(s, "partition")
        /\ Len(req[s].grouped) = 3
        /\ req[s].version_counter = 4

\* every ledger entry of a project in ps names a file that exists in fs
LedgerBacked(ps, vs, fs) ==
    \A v \in DOMAIN vs : v[1] \in DOMAIN ps => FileExists(fs, vs[v].files_path)

\* C27: completed ingest and rename operations, also the ones that failed
\* at the update of the project pointer, leave every ledger entry of a live
\* project with a file location that names an existing blob: when that held
\* as the request arrived, it holds after its response.
C27_LedgerBacked ==
    \A s \in Slots :
        /\ Done(s, "upload") \/ Done(s, "rename")
        /\ LedgerBacked(pre[s].projects, pre[s].versions, pre[s].blobs)
        => LedgerBacked(projects, versions, blobs)

\* the file name of path ends in _v1 or _v2
IsVersionFile(path) ==
    path.stem # <<>> /\ path.stem[Len(path.stem)] \in {"_v1", "_v2"}

\* C28: a transition writes the blob, then records the ledger entry, then
\* updates the project pointer, so in every reachable state, the states
\* within a running operation and after a failure included, a project whose
\* file_path names a version-1 or version-2 file has a ledger entry with
\* exactly that location, and the blob exists.
C28_PointerBacked ==
    \A p \in DOMAIN projects :
        IsVersionFile(projects[p].file_path) =>
            /\ \E v \in VersionsOf(versions, p) :
                  versions[v].files_path = projects[p].file_path
            /\ FileExists(blobs, projects[p].file_path)

\* the rename in slot b failed at its ledger record or at its pointer update
\* and removed the file it had written
RenameCompensated(b) ==
    /\ Done(b, "rename")
    /\ req[b].code = 500
    /\ req[b].msg \in {"Failed to create version 2",
                       "Failed to update project with new file path and version"}

\* C29: when two renames of one project overlap and one of them fails at
\* its ledger record or its pointer update, the compensation of the failing
\* rename never deletes the blob that the successful rename has made the
\* project's current file: that file still exists.
C29_CompensationSparesCurrent ==
    \A a, b \in DOMAIN req :
        /\ a # b
        /\ Succeeded(a, "rename")
        /\ RenameCompensated(b)
        /\ req[a].project_id = req[b].project_id
        /\ req[a].project_id \in DOMAIN projects
        /\ projects[req[a].project_id].file_path = req[a].new_file_path
        => FileExists(blobs, req[a].new_file_path)

\* the request of slot s was made on a project that was partitioned by then
OnPartitioned(s) ==
    /\ req[s].project_id \in DOMAIN pre[s].projects
    /\ IsPartitioned(pre[s].projects[req[s].project_id])
    /\ HasSubVersions(pre[s].projects[req[s].project_id])

\* C30: a partitioned project is in a terminal state: every later rename or
\* partition request on it is answered with a not-found error and leaves
\* the project record with its sub_versions, the ledger and the blobs as
\* they were.
C30_PartitionedIsTerminal ==
    \A s \in Slots :
        (Done(s, "rename") \/ Done(s, "partition")) /\ OnPartitioned(s) =>
            /\ req[s].code = 404
            /\ StoresUnchanged(s)

\* a rename and a partition of a partitioned project were refused because
\* the pointer names no file
C30_Witness ==
    \E s \in Slots :
        /\ Done(s, "rename") \/ Done(s, "partition")
        /\ OnPartitioned(s)
        /\ req[s].code = 404
        /\ req[s].msg = "File not found"
        /\ projects[req[s].project_id].file_path = Sentinel

\* C31: an ingest that fails at its load step, on an unsupported extension
\* or an unreadable file, returns with no project record and no ledger entry
\* of that upload left: both collections are as they were when it arrived.
C31_LoadFailureCleansUp ==
    \A s \in Slots :
        /\ Done(s, "upload")
        /\ req[s].msg \in {"Unsupported file format", "Error reading the file"}
        => /\ projects = pre[s].projects
           /\ versions = pre[s].versions

\* the responses of an ingest that failed after save_file had written the
\* raw file
FailedPastBlobWrite ==
    {"Failed to create project", "Failed to create version 0",
     "Unsupported file format", "Error reading the file",
     "Failed to create version 1", "Failed to update project with new file path"}

\* C32: after an ingest that failed at a step past the blob write, the
\* project directory made for it no longer exists, so that the same project
\* name can be uploaded again.
C32_FailedIngestFreesName ==
    \A s \in Slots :
        /\ Done(s, "upload")
        /\ req[s].msg \in FailedPastBlobWrite
        /\ ProjectFolder(req[s].name) \notin pre[s].dirs
        => ProjectFolder(req[s].name) \notin dirs

\* the upload of slot s got its directory from save_file
PassedMkdir(s) == req[s].op = "upload" /\ req[s].file_path # NoPath

\* C33: in every interleaving of uploads no two live projects share a
\* project directory: of two overlapping uploads whose names sanitize to
\* the same directory name at most one gets past the put of save_file, and
\* so at most one creates a project record.
C33_OneProjectPerDirectory ==
    /\ \A a, b \in DOMAIN req :
          /\ a # b
          /\ PassedMkdir(a)
          /\ req[b].op = "upload"
          /\ ProjectFolder(req[a].name) = ProjectFolder(req[b].name)
          => ~PassedMkdir(b) /\ req[b].project_id = 0
    /\ \A p, q \in DOMAIN projects :
          ProjectFolder(projects[p].name) = ProjectFolder(projects[q].name) => p = q

\* two uploads under different names for the same directory both found the
\* directory missing; one created it and its project, the other was refused
C33_Witness ==
    \E a, b \in DOMAIN req :
        /\ Succeeded(a, "upload")
        /\ Done(b, "upload")
        /\ req[a].name # req[b].name
        /\ req[b].code = 400
        /\ req[b].msg = "Error saving file"
        /\ NoFaults
        /\ req[a].project_id \in DOMAIN projects

\* ledger entry v is referenced from the project document: its version_info
\* log or a descriptor of its sub_versions holds the entry's id
Referenced(doc, v) ==
    \/ \E i \in 1..Len(doc.version_info) : doc.version_info[i].id = v
    \/ /\ HasSubVersions(doc)
       /\ \E i \in 1..Len(doc.sub_versions) : doc.sub_versions[i].version = v

\* C34: after successful operations every ledger entry of a project is
\* referenced from the project record, so that once the project has been
\* renamed its record leads to the entries of versions 0, 1 and 2: the
\* entry a successful rename has recorded is referenced from the record.
C34_LedgerReferenced ==
    \A s \in Slots :
        /\ Succeeded(s, "rename")
        /\ NoFault(s)
        /\ req[s].project_id \in DOMAIN projects
        => Referenced(projects[req[s].project_id], req[s].version_id)

\* the entries of project p in ledger vs with whole version number n
WholeEntries(vs, p, n) ==
    {v \in VersionsOf(vs, p) : vs[v].version_number = WholeVersion(n)}

\* the rename of slot s wrote to a location that no ledger entry had recorded
FreshLocation(s) ==
    \A v \in DOMAIN pre[s].versions :
        pre[s].versions[v].files_path # req[s].new_file_path

\* C35: after ingest and rename operations, a second rename of a Renamed
\* project included, the project's ledger holds at most one entry for each
\* of the versions 0, 1 and 2, and each rename writes its blob to a
\* location that differs from every location the ledger has recorded.
C35_OneEntryPerVersion ==
    \A s \in Slots :
        Succeeded(s, "rename") /\ NoFault(s) =>
            /\ FreshLocation(s)
            /\ \A n \in 0..2 :
                  Cardinality(WholeEntries(versions, req[s].project_id, n)) <= 1

\* the sum of the entries of the keys S of a tag_groups summary
RECURSIVE EntriesSum(_, _)
EntriesSum(tag_groups, S) ==
    IF S = {} THEN 0
    ELSE LET k == CHOOSE x \in S : TRUE
         IN  tag_groups[k].entries + EntriesSum(tag_groups, S \ {k})

\* C36: the descriptors of a partition have pairwise distinct (tag,
\* tag_type) pairs, and the tag_groups summary has one entry for each
\* descriptor, whose row counts add up to the number of rows of the
\* partitioned table, also for a table with a blank tag and the tag text
\* Untagged.
C36_DistinctGroups ==
    \A s \in Slots :
        At(s, "groupby", "output") =>
            LET r == req[s]
            IN  /\ \A i, j \in 1..Len(r.sub_versions) :
                      /\ r.sub_versions[i].tag = r.sub_versions[j].tag
                      /\ r.sub_versions[i].tag_type = r.sub_versions[j].tag_type
                      => i = j
                /\ Cardinality(DOMAIN r.tag_groups) = Len(r.sub_versions)
                /\ EntriesSum(r.tag_groups, DOMAIN r.tag_groups) = Len(r.df.rows)

\* in the records ps with the ledger vs, a project holds sub_versions
\* exactly when its pointer is the sentinel, and each of its descriptors
\* names an entry of the project with the descriptor's location and number
SubVersionsBacked(ps, vs) ==
    \A p \in DOMAIN ps :
        /\ HasSubVersions(ps[p]) <=> IsPartitioned(ps[p])
        /\ HasSubVersions(ps[p]) =>
              \A i \in 1..Len(ps[p].sub_versions) :
                 LET d == ps[p].sub_versions[i]
                 IN  /\ d.version \in VersionsOf(vs, p)
                     /\ vs[d.version].files_path = d.file_path
                     /\ vs[d.version].version_number = d.version_number

\* C37: in every state reached by completed ingest, rename and partition
\* operations that do not overlap, a project has a sub_versions field
\* exactly when its file_path is the sentinel, and every descriptor names a
\* ledger entry of the same project with the descriptor's location and
\* version number: each such operation that starts from such a state ends
\* in one.
C37_SubVersionsBacked ==
    \A s \in Slots :
        /\ req[s].op \in {"upload", "rename", "partition"}
        /\ req[s].pc = "done"
        /\ SubVersionsBacked(pre[s].projects, pre[s].versions)
        => SubVersionsBacked(projects, versions)

\* a partition has succeeded and the project holds at least one descriptor
C37_Witness ==
    \E s \in Slots :
        /\ Succeeded(s, "partition")
        /\ req[s].project_id \in DOMAIN projects
        /\ IsPartitioned(projects[req[s].project_id])
        /\ Len(projects[req[s].project_id].sub_versions) >= 1
        /\ SubVersionsBacked(pre[s].projects, pre[s].versions)

\* the file the pointer of document doc names holds a table in a format the
\* handlers read
HasCurrentTable(doc) ==
    /\ ~IsPartitioned(doc)
    /\ FileExists(blobs, doc.file_path)
    /\ blobs[doc.file_path] # EmptyFile
    /\ SupportedExt(doc.file_path)

\* the response of slot s shows the columns of table df in order and its
\* first min(num_rows, row count) rows
ShowsTable(s, df) ==
    LET shown == IF Len(df.rows) < num_rows THEN Len(df.rows) ELSE num_rows
    IN  /\ req[s].code = 200
        /\ req[s].column_names = df.cols
        /\ Len(req[s].rows) = shown
        /\ \A i \in 1..shown :
              req[s].rows[i] =
                  [j \in 1..Len(df.cols) |-> <<df.cols[j], WriteCell(df.rows[i][j])>>]

\* C38: for a project that is not partitioned and whose current file
\* exists, get_project_data returns the full ordered column list of the
\* current table and its first min(10, row count) rows, also for a table
\* with no data row; for a partitioned project it answers not found.
C38_PreviewOfCurrentTable ==
    \A s \in Slots :
        /\ Done(s, "data")
        /\ NoFault(s)
        /\ req[s].project_id \in DOMAIN projects
        => LET doc == projects[req[s].project_id]
           IN  /\ IsPartitioned(doc) => req[s].code = 404
               /\ HasCurrentTable(doc) => ShowsTable(s, ReadTable(blobs[doc.file_path]))

====
